---- MODULE Spec2Model ----
(***************************************************************************)
(* Model of the policy server (src/src/lib.rs): the TLS manager with its   *)
(* inotify-driven hot reload, and the admission HTTP surface with its      *)
(* bounded-concurrency gate and epoch-based evaluation deadline.           *)
(***************************************************************************)
EXTENDS Integers, Sequences, FiniteSets, TLC

\* ------------------------------------------------------------------------
\* Bounds of the model
\* ------------------------------------------------------------------------
\* number of distinct key pairs (certificate v matches key v)
MaxVer == 2
\* number of file writes the environment performs
MaxWrites == 3
\* number of unread errors in the event stream of the watcher
MaxReadErrors == 1
\* number of client connections tracked
MaxConns == 1
\* number of admission requests
MaxReqs == 2
\* largest pool_size
MaxPool == 2
\* largest policy_evaluation_limit_seconds
MaxLimit == 1
\* longest run of a guest, in seconds
MaxDur == 3
\* seconds the model lets pass
MaxTime == 3
MaxCalls == 2
\* writes to the TLS files while the readiness address is probed
MaxProbedWrites == 2

Versions == 1..MaxVer
ConnIds == 1..MaxConns
ReqIds == 1..MaxReqs

\* Option<T>: None is the empty sequence, Some(x) the one-element sequence
None == <<>>
Some(x) == <<x>>

\* ------------------------------------------------------------------------
\* PEM files
\* ------------------------------------------------------------------------
\* A PEM file is a sequence of sections; a section is a certificate or a
\* private key of key pair `id`, or a section that fails to parse.
Cert(v) == [kind |-> "cert", id |-> v]
Key(v) == [kind |-> "key", id |-> v]
Junk == [kind |-> "junk", id |-> 0]

\* the paths of the three files of TlsConfig
CertPath == "cert.pem"
KeyPath == "key.pem"
CaPath == "ca.pem"
Paths == {CertPath, KeyPath, CaPath}

\* what the environment may write into a file
AllCerts == [i \in 1..MaxVer |-> Cert(i)]
AllKeys == [i \in 1..MaxVer |-> Key(i)]
CertFileContents == {<<Cert(v)>> : v \in Versions} \cup {<<>>, AllCerts}
KeyFileContents == {<<Key(v)>> : v \in Versions} \cup {<<>>, AllKeys, <<Junk, Key(1)>>}
CombinedContents == {<<Cert(v), Key(v)>> : v \in Versions} \cup {<<Cert(1)>>}
CaFileContents == {<<Cert(v)>> : v \in Versions} \cup {<<Junk>>}

\* rustls_pemfile::certs followed by the filter_map that drops the errors
ParseCerts(content) == SelectSeq(content, LAMBDA it : it.kind = "cert")
\* rustls_pemfile::read_all followed by the filter_map that keeps the keys
ParseKeys(content) == SelectSeq(content, LAMBDA it : it.kind = "key")

\* ------------------------------------------------------------------------
\* TLS contexts
\* ------------------------------------------------------------------------
\* rustls::ServerConfig: the certificate chain, the key, whether a client
\* certificate is required, and the roots client certificates are verified
\* against
NullCtx == [cert |-> <<>>, key |-> 0, client_auth |-> FALSE, roots |-> {}]
Ok(x) == [ok |-> TRUE, val |-> x, err |-> ""]
Err(e) == [ok |-> FALSE, val |-> NullCtx, err |-> e]

\* ServerConfig::builder()...with_single_cert(cert, key): the key has to be
\* the key of the end-entity certificate, the first of the chain
WithSingleCert(cert, key, client_auth, roots) ==
  IF cert = <<>> THEN Err("no certificates presented")
  ELSE IF cert[1].id # key.id THEN Err("key mismatch")
  ELSE Ok([cert |-> cert, key |-> key.id, client_auth |-> client_auth, roots |-> roots])

\* the check for more than one item, left out
MoreThanOne_Dropped(n) == FALSE

MoreThanOne(n) == n > 1

\* build_tls_server_config
BuildTlsServerConfig(tc, d) ==
  LET cert == ParseCerts(d[tc.cert_file])
      key_vec == ParseKeys(d[tc.key_file])
  IN IF MoreThanOne(Len(cert)) THEN Err("Multiple certificates provided in cert file")
     ELSE IF key_vec = <<>> THEN Err("No key provided in key file")
     ELSE IF MoreThanOne(Len(key_vec)) THEN Err("Multiple keys provided in key file")
     ELSE IF tc.client_ca_file # None
          THEN LET client_ca_certs == ParseCerts(d[tc.client_ca_file[1]])
                   store == {client_ca_certs[i].id : i \in 1..Len(client_ca_certs)}
               IN IF store = {} THEN Err("no root trust anchors were provided")
                  ELSE WithSingleCert(cert, key_vec[1], TRUE, store)
          ELSE WithSingleCert(cert, key_vec[1], FALSE, {})

\* RustlsConfig::from_pem_file(cert_file, key_file), the non-linux build:
\* the whole chain is accepted, exactly one key, no client authentication
FromPemFile(tc, d) ==
  LET cert == ParseCerts(d[tc.cert_file])
      key_vec == ParseKeys(d[tc.key_file])
  IN IF Len(key_vec) # 1 THEN Err("private key format not supported")
     ELSE WithSingleCert(cert, key_vec[1], FALSE, {})

\* the context create_tls_config_and_watch_certificate_changes loads at boot
InitialTlsConfig(platform, tc, d) ==
  IF platform = "linux" THEN BuildTlsServerConfig(tc, d) ELSE FromPemFile(tc, d)

\* reload as soon as the client CA changed, whatever the server flags
ReloadCondition_AnyClientChange(cert_chg, key_chg, client_chg) ==
  (key_chg /\ cert_chg) \/ client_chg

\* reload as soon as either server file changed
ReloadCondition_EitherServerFile(cert_chg, key_chg, client_chg) ==
  (key_chg \/ cert_chg) \/ (client_chg /\ (key_chg = cert_chg))

\* the condition under which the watcher reloads the certificates
ReloadCondition(cert_chg, key_chg, client_chg) ==
  (key_chg /\ cert_chg) \/ (client_chg /\ (key_chg = cert_chg))

\* the context mutated in place, the certificate chain alone replaced
ReloadFromConfig_InPlace(cur, new) == [cur EXCEPT !.cert = new.cert]

\* RustlsConfig::reload_from_config: the shared pointer is swapped
ReloadFromConfig(cur, new) == new

\* the result installed without looking at the error
AfterBuild_Unchecked(cur, res) == ReloadFromConfig(cur, res.val)

\* what the listener uses after a triggered rebuild
AfterBuild(cur, res) == IF res.ok THEN ReloadFromConfig(cur, res.val) ELSE cur

\* the watcher task after a triggered rebuild: `continue` on failure
WatcherAfterBuild(res) == "running"

\* flags that stay as they are when the build fails, for a retry
FlagsAfterTrigger_KeptOnFailure(res, cert_chg, key_chg, client_chg) ==
  IF res.ok THEN <<FALSE, FALSE, FALSE>> ELSE <<cert_chg, key_chg, client_chg>>

\* the dirty flags after a triggered rebuild: the three are reset before
\* build_tls_server_config is called
FlagsAfterTrigger(res, cert_chg, key_chg, client_chg) == <<FALSE, FALSE, FALSE>>

\* ------------------------------------------------------------------------
\* Deadline protection and the concurrency gate, as new_from_config sets
\* them up
\* ------------------------------------------------------------------------
\* an engine that is always built with epoch interruption
EpochInterruption_Always(limit) == TRUE

\* wasmtime_config.epoch_interruption(true) only when a limit is configured
EpochInterruption(limit) == limit # None

\* a limit one second shorter than the configured one
EvaluationLimit_OneLess(limit) == IF limit = None THEN None ELSE Some(limit[1] - 1)

\* with_policy_evaluation_limit_seconds(limit) only when a limit is configured
EvaluationLimit(limit) == limit

\* no ticker task although a limit is configured
TickerSpawned_Never(limit) == FALSE

\* a ticker task whatever the configuration
TickerSpawned_Always(limit) == TRUE

\* the ticker task is spawned only when a limit is configured
TickerSpawned(limit) == limit # None

\* an epoch advanced by two
IncrementEpoch_ByTwo(e) == e + 2

\* engine.increment_epoch()
IncrementEpoch(e) == e + 1

\* a semaphore created without permits
SemaphoreNew_Empty(pool_size) == 0

\* one permit too many
SemaphoreNew_OffByOne(pool_size) == pool_size + 1

\* Semaphore::new(config.pool_size)
SemaphoreNew(pool_size) == pool_size

\* ------------------------------------------------------------------------
\* Admission requests and responses
\* ------------------------------------------------------------------------
Routes == {"validate", "validate_raw", "audit"}
\* the route request r comes in on: the routes take turns, they share the
\* state and nothing that follows depends on the route
RouteOf(r) ==
  IF r % 3 = 1 THEN "validate" ELSE IF r % 3 = 2 THEN "validate_raw" ELSE "audit"
\* the PolicyIds of the evaluation environment, and one that is not in it
Policies == {"pod-privileged"}
RequestPolicies == Policies \cup {"does_not_exist"}
\* what the guest answers when it runs to completion
Verdicts == {"allow", "deny", "error"}
Durations == 0..MaxDur
\* what a guest does with a request body: it answers at once, or it sleeps
\* for some seconds and allows (the sleep policy of the tests)
GuestRuns ==
  {[verdict |-> v, dur |-> 0] : v \in Verdicts}
    \cup {[verdict |-> "allow", dur |-> d] : d \in 1..MaxDur}

DeadlineMessage ==
  "internal server error: Guest call failure: guest code interrupted, execution deadline exceeded"

NoResponse == [http |-> 0, allowed |-> FALSE, code |-> 0, message |-> ""]
NotFoundResponse == [http |-> 404, allowed |-> FALSE, code |-> 0, message |-> ""]
DeadlineResponse == [http |-> 200, allowed |-> FALSE, code |-> 500, message |-> DeadlineMessage]
GuestResponse(verdict) ==
  IF verdict = "allow" THEN [http |-> 200, allowed |-> TRUE, code |-> 0, message |-> ""]
  ELSE IF verdict = "deny"
       THEN [http |-> 200, allowed |-> FALSE, code |-> 0, message |-> "Privileged container is not allowed"]
       ELSE [http |-> 200, allowed |-> FALSE, code |-> 500, message |-> "internal server error: guest error"]

IdleRequest == [st |-> "idle", route |-> "validate", policy |-> "does_not_exist",
                dur |-> 0, verdict |-> "allow", start_epoch |-> 0, start_now |-> 0,
                exit |-> "", resp |-> NoResponse]

\* ------------------------------------------------------------------------
\* Policies: configuration, download, precompilation
\* ------------------------------------------------------------------------
\* the artifacts the configured policies refer to
UrlPodPrivileged == "ghcr.io/kubewarden/tests/pod-privileged:v0.2.1"
UrlRawMutation == "ghcr.io/kubewarden/tests/raw-mutation:v0.1.0"
Urls == {UrlPodPrivileged, UrlRawMutation}
\* what the registry and the compiler make of an artifact
ArtifactStates == {"ok", "fetch_error", "compile_error"}

\* an anyhow::Error: its Display message and the chain of causes under it
Error(message, source) == [message |-> message, source |-> source]
\* anyhow!(error.to_string()): a new error with the same Display message and
\* no cause
AnyhowFromString(error) == Error(error.message, <<>>)

OkPolicy(m) == [ok |-> TRUE, val |-> m, err |-> Error(<<>>, <<>>)]
ErrPolicy(e) == [ok |-> FALSE, val |-> "", err |-> e]

\* the error of a failed download, as the downloader words it
FetchError(url) ==
  Error(<<"Error while downloading policy from", url>>, <<"registry: manifest unknown">>)
\* the error of a failed compilation
CompileError(url) ==
  Error(<<"Cannot compile policy", url>>, <<"wasm: invalid module">>)
\* the error of settings the policy refuses
SettingsError(id) ==
  Error(<<"Policy settings are invalid:", id>>, <<>>)

\* Downloader::download_policies: every distinct URL is fetched once
DownloadPolicies(urls, reg) ==
  [u \in urls |-> IF reg[u] = "fetch_error" THEN ErrPolicy(FetchError(u)) ELSE OkPolicy(u)]

\* PrecompiledPolicy::new(engine, policy)
PrecompiledPolicyNew(reg, policy) ==
  IF reg[policy] = "compile_error" THEN ErrPolicy(CompileError(policy)) ELSE OkPolicy(policy)

\* a fetch error replaced by an error of the precompilation's own
PrecompileEntry_OwnError(reg, fetched_policy) ==
  IF fetched_policy.ok
  THEN PrecompiledPolicyNew(reg, fetched_policy.val)
  ELSE ErrPolicy(Error(<<"policy was not fetched">>, <<>>))

\* the closure of precompile_policies, applied to one entry
PrecompileEntry(reg, fetched_policy) ==
  IF fetched_policy.ok
  THEN PrecompiledPolicyNew(reg, fetched_policy.val)
  ELSE ErrPolicy(AnyhowFromString(fetched_policy.err))

\* a collect() whose workers hand in, from the second delivery on, the entry
\* of a URL delivered before
RECURSIVE CollectInOrder_Mixed(_, _, _, _)
CollectInOrder_Mixed(order, reg, fetched_policies, acc) ==
  IF order = <<>> THEN acc
  ELSE LET u == Head(order)
           from == IF DOMAIN acc = {} THEN u ELSE CHOOSE k \in DOMAIN acc : TRUE
           entry == PrecompileEntry(reg, fetched_policies[from])
       IN CollectInOrder_Mixed(Tail(order), reg, fetched_policies,
                               [x \in DOMAIN acc \cup {u} |-> IF x = u THEN entry ELSE acc[x]])

\* the collect() of the parallel iterator: the workers deliver the entries
\* in some order and each is inserted under its URL
RECURSIVE CollectInOrder(_, _, _, _)
CollectInOrder(order, reg, fetched_policies, acc) ==
  IF order = <<>> THEN acc
  ELSE LET u == Head(order)
           entry == PrecompileEntry(reg, fetched_policies[u])
       IN CollectInOrder(Tail(order), reg, fetched_policies,
                         [x \in DOMAIN acc \cup {u} |-> IF x = u THEN entry ELSE acc[x]])

\* the orders in which the workers can deliver the entries of a map
Orders(keys) ==
  {o \in [1..Cardinality(keys) -> keys] : \A i, j \in DOMAIN o : i # j => o[i] # o[j]}

\* precompile_policies(engine, fetched_policies), the workers delivering in
\* the given order
PrecompilePolicies(order, reg, fetched_policies) ==
  CollectInOrder(order, reg, fetched_policies, <<>>)

\* the errors among the values of the precompiled map
PrecompileErrors(precompiled_policies) ==
  {precompiled_policies[u].err : u \in {x \in DOMAIN precompiled_policies :
                                          ~precompiled_policies[x].ok}}

\* no check of the precompiled map
BootErrors_Never(continue_on_errors, precompiled_policies) == {}

\* if !config.continue_on_errors: the first Err the iteration over the
\* values meets is returned; the map iterates in no particular order
BootErrors(continue_on_errors, precompiled_policies) ==
  IF continue_on_errors THEN {}
  ELSE {AnyhowFromString(e) : e \in PrecompileErrors(precompiled_policies)}

\* ------------------------------------------------------------------------
\* Config.policies: single policies and policy groups
\* ------------------------------------------------------------------------
GroupMessage == <<"The group policy rejected your request">>
MutationInGroupMessage == <<"mutation is not allowed inside of policy group">>

\* the members a group can name, and the artifact each of them runs
MemberNames == {"a", "b"}
MemberModule(name) == IF name = "a" THEN UrlPodPrivileged ELSE UrlRawMutation

\* PolicyOrPolicyGroup::Policy
Policy(module, policy_mode, settings_valid, allowed_to_mutate) ==
  [kind |-> "policy", module |-> module, policy_mode |-> policy_mode,
   settings_valid |-> settings_valid,
   allowed_to_mutate |-> allowed_to_mutate, members |-> {},
   members_allowed_to_mutate |-> {}, expression |-> "", message |-> <<>>]
\* PolicyOrPolicyGroup::PolicyGroup
PolicyGroup(members, members_allowed_to_mutate, expression, message) ==
  [kind |-> "group", module |-> "", policy_mode |-> "protect", settings_valid |-> TRUE,
   allowed_to_mutate |-> FALSE, members |-> members,
   members_allowed_to_mutate |-> members_allowed_to_mutate,
   expression |-> expression, message |-> message]

\* the expressions of the configured groups
GroupExpressions ==
  {"a()", "b()", "a() && b()", "b() || a()", "!a()", "a() && (a() || b())"}
\* the expression parsed: a tree of member calls, &&, || and !
ExpressionTree(expression) ==
  CASE expression = "a()" -> <<"call", "a">>
    [] expression = "b()" -> <<"call", "b">>
    [] expression = "a() && b()" -> <<"and", <<"call", "a">>, <<"call", "b">>>>
    [] expression = "b() || a()" -> <<"or", <<"call", "b">>, <<"call", "a">>>>
    [] expression = "!a()" -> <<"not", <<"call", "a">>>>
    [] OTHER -> <<"and", <<"call", "a">>, <<"or", <<"call", "a">>, <<"call", "b">>>>>>

\* the expression has a ! in it
RECURSIVE HasNegation(_)
HasNegation(tree) ==
  CASE tree[1] = "call" -> FALSE
    [] tree[1] = "not" -> TRUE
    [] OTHER -> HasNegation(tree[2]) \/ HasNegation(tree[3])

\* the members an expression calls
RECURSIVE Referenced(_)
Referenced(tree) ==
  CASE tree[1] = "call" -> {tree[2]}
    [] tree[1] = "not" -> Referenced(tree[2])
    [] OTHER -> Referenced(tree[2]) \cup Referenced(tree[3])

\* the value of an expression, given which members accept
RECURSIVE EvalExpression(_, _)
EvalExpression(tree, accepts) ==
  CASE tree[1] = "call" -> accepts[tree[2]]
    [] tree[1] = "not" -> ~EvalExpression(tree[2], accepts)
    [] tree[1] = "and" -> EvalExpression(tree[2], accepts) /\ EvalExpression(tree[3], accepts)
    [] OTHER -> EvalExpression(tree[2], accepts) \/ EvalExpression(tree[3], accepts)

\* the calls an evaluation of the expression makes: all of them, or, when the
\* engine short-circuits, only those the result still depends on
RECURSIVE Evaluated(_, _, _)
Evaluated(tree, accepts, short) ==
  CASE tree[1] = "call" -> {tree[2]}
    [] tree[1] = "not" -> Evaluated(tree[2], accepts, short)
    [] tree[1] = "and" ->
         Evaluated(tree[2], accepts, short)
           \cup (IF short /\ ~EvalExpression(tree[2], accepts) THEN {}
                 ELSE Evaluated(tree[3], accepts, short))
    [] OTHER ->
         Evaluated(tree[2], accepts, short)
           \cup (IF short /\ EvalExpression(tree[2], accepts) THEN {}
                 ELSE Evaluated(tree[3], accepts, short))

\* the members of a configured group that its expression calls
Called(entry) == Referenced(ExpressionTree(entry.expression)) \cap entry.members

\* the artifacts an entry of Config.policies needs
EntryUrls(entry) ==
  IF entry.kind = "policy" THEN {entry.module}
  ELSE {MemberModule(n) : n \in entry.members}
PolicyUrls(policies) == UNION {EntryUrls(policies[id]) : id \in DOMAIN policies}

\* the policies of the tests: two single policies, one in Monitor mode,
\* optionally one whose settings the policy refuses, and one group
TestPolicies(with_invalid_settings, expression, members_allowed_to_mutate) ==
  [id \in {"pod-privileged", "raw-mutation", "monitor", "group-policy"}
            \cup (IF with_invalid_settings THEN {"invalid_settings"} ELSE {}) |->
     CASE id = "pod-privileged" -> Policy(UrlPodPrivileged, "protect", TRUE, FALSE)
       [] id = "raw-mutation" -> Policy(UrlRawMutation, "protect", TRUE, TRUE)
       [] id = "monitor" -> Policy(UrlRawMutation, "monitor", TRUE, TRUE)
       [] id = "invalid_settings" -> Policy(UrlPodPrivileged, "protect", FALSE, FALSE)
       [] OTHER -> PolicyGroup(MemberNames, members_allowed_to_mutate, expression,
                               GroupMessage)]

\* the policies the TLS manager and the concurrency gate are checked with
DefaultPolicies == [id \in Policies |-> Policy(UrlPodPrivileged, "protect", TRUE, FALSE)]

\* ------------------------------------------------------------------------
\* The evaluation environment
\* ------------------------------------------------------------------------
\* the first of a set of member names, in the order of the configuration
FirstMember(names) == IF "a" \in names THEN "a" ELSE "b"

\* the error that keeps an entry of Config.policies from being usable, if any:
\* the module of a policy (of a member) did not precompile, or the policy
\* refuses its settings
EntryError(id, entry, precompiled_policies) ==
  IF entry.kind = "policy"
  THEN IF ~precompiled_policies[entry.module].ok
       THEN Some(precompiled_policies[entry.module].err)
       ELSE IF ~entry.settings_valid THEN Some(SettingsError(id)) ELSE None
  ELSE LET broken == {n \in entry.members : ~precompiled_policies[MemberModule(n)].ok}
       IN IF broken = {} THEN None
          ELSE Some(precompiled_policies[MemberModule(FirstMember(broken))].err)

\* EvaluationEnvironmentBuilder::build: without continue_on_errors an
\* unusable entry fails the build; with it the error is kept with the
\* PolicyId and answered to every request. The errors the build can fail
\* with, and the environment it builds otherwise.
BuildErrors(continue_on_errors, policies, precompiled_policies) ==
  IF continue_on_errors THEN {}
  ELSE {EntryError(id, policies[id], precompiled_policies)[1] :
          id \in {x \in DOMAIN policies :
                    EntryError(x, policies[x], precompiled_policies) # None}}
BuildEnvironment(policies, precompiled_policies) ==
  [id \in DOMAIN policies |->
     [policy |-> policies[id],
      init_error |-> EntryError(id, policies[id], precompiled_policies)]]

\* the answers of the admission routes
HttpStatus(n) ==
  [http |-> n, allowed |-> FALSE, status |-> FALSE, code |-> 0, message |-> <<>>,
   causes |-> <<>>, patch |-> FALSE, patch_type |-> "", warnings |-> <<>>]
\* patchType is "JSONPatch" when a patch is present
Accepted(patch) ==
  [http |-> 200, allowed |-> TRUE, status |-> FALSE, code |-> 0, message |-> <<>>,
   causes |-> <<>>, patch |-> patch, patch_type |-> IF patch THEN "JSONPatch" ELSE "",
   warnings |-> <<>>]
Rejected(message, code, causes) ==
  [http |-> 200, allowed |-> FALSE, status |-> TRUE, code |-> code, message |-> message,
   causes |-> causes, patch |-> FALSE, patch_type |-> "", warnings |-> <<>>]

\* what the guest of an artifact can make of a request
\* "deadline": the engine interrupts the guest at its execution deadline
GuestOutcomes(url) ==
  IF url = UrlRawMutation THEN {"allow", "deny", "mutate", "deadline"}
  ELSE {"allow", "deny", "deadline"}
\* an admission input, by what each guest makes of it
Inputs ==
  {i \in [Urls -> {"allow", "deny", "mutate", "deadline"}] :
     \A u \in Urls : i[u] \in GuestOutcomes(u)}
\* the rejection message of a guest
RejectionMessage(url) ==
  IF url = UrlPodPrivileged THEN <<"Privileged container is not allowed">>
  ELSE <<"The request is rejected">>
\* the rejection of a guest: its own, or that of the interrupted call
GuestRejection(url, outcome) ==
  IF outcome = "deadline" THEN Rejected(<<DeadlineMessage>>, 500, <<>>)
  ELSE Rejected(RejectionMessage(url), 0, <<>>)

\* the namespace the server accepts everything in, when one is configured,
\* and the namespaces requests come from
AlwaysAcceptedNamespace == "kubewarden"
Namespaces == {"default", AlwaysAcceptedNamespace}

\* an error kept from boot, answered inside the admission response
InitializationErrorResponse(error) == Rejected(error.message, 500, <<>>)

\* a single policy evaluates a request
ValidateSingle(entry, input) ==
  LET outcome == input[entry.module]
  IN CASE outcome = "allow" -> Accepted(FALSE)
       [] outcome = "mutate" -> Accepted(entry.allowed_to_mutate)
       [] OTHER -> GuestRejection(entry.module, outcome)

\* a Monitor mode that lets the denial through
PolicyModeRewrite_Protects(policy_mode, response) == response

\* Monitor mode: a deny verdict becomes an allow that carries the rejection
\* message as a warning
PolicyModeRewrite(policy_mode, response) ==
  IF policy_mode = "monitor" /\ ~response.allowed
  THEN [Accepted(FALSE) EXCEPT !.warnings = <<response.message>>]
  ELSE response

\* a member whose mutation is accepted without its patch
ValidateMember_DropsPatch(name, input) ==
  LET outcome == input[MemberModule(name)]
  IN CASE outcome = "allow" -> Accepted(FALSE)
       [] outcome = "mutate" -> Accepted(FALSE)
       [] OTHER -> GuestRejection(MemberModule(name), outcome)

\* a member of a group evaluates a request: it never mutates
ValidateMember(name, input) ==
  LET outcome == input[MemberModule(name)]
  IN CASE outcome = "allow" -> Accepted(FALSE)
       [] outcome = "mutate" -> Rejected(MutationInGroupMessage, 0, <<>>)
       [] OTHER -> GuestRejection(MemberModule(name), outcome)

\* causes that list every called member, whatever it answered
RECURSIVE CausesOf_All(_, _)
CausesOf_All(names, results) ==
  IF names = {} THEN <<>>
  ELSE LET n == FirstMember(names)
       IN <<[member |-> n, message |-> results[n].message]>>
            \o CausesOf_All(names \ {n}, results)

\* the causes of a group rejection: the called members that rejected, each
\* once, by member name
RECURSIVE CausesOf(_, _)
CausesOf(names, results) ==
  IF names = {} THEN <<>>
  ELSE LET n == CHOOSE x \in names : \A y \in names : x = "a" \/ y # "a"
       IN (IF results[n].allowed THEN <<>>
           ELSE <<[member |-> n, message |-> results[n].message]>>)
            \o CausesOf(names \ {n}, results)

\* the members a policy group evaluates for a request
MembersEvaluated(entry, input, short) ==
  Evaluated(ExpressionTree(entry.expression),
            [n \in Called(entry) |-> ValidateMember(n, input).allowed], short)

\* a group that hands on the patch of a member that mutated
ValidateGroup_KeepsPatch(entry, input, short) ==
  LET results == [n \in Called(entry) |-> ValidateMember(n, input)]
      accepts == [n \in Called(entry) |-> results[n].allowed]
  IN IF EvalExpression(ExpressionTree(entry.expression), accepts)
     THEN Accepted(\E n \in Called(entry) : input[MemberModule(n)] = "mutate")
     ELSE Rejected(entry.message, 0,
                   CausesOf(MembersEvaluated(entry, input, short), results))

\* a policy group evaluates a request
ValidateGroup(entry, input, short) ==
  LET results == [n \in Called(entry) |-> ValidateMember(n, input)]
      accepts == [n \in Called(entry) |-> results[n].allowed]
  IN IF EvalExpression(ExpressionTree(entry.expression), accepts)
     THEN Accepted(FALSE)
     ELSE Rejected(entry.message, 0,
                   CausesOf(MembersEvaluated(entry, input, short), results))

\* an environment that accepts in no namespace without evaluating
AlwaysAccepted_Never(env, namespace) == FALSE

\* the request comes from the namespace the environment always accepts in
AlwaysAccepted(env, namespace) ==
  /\ env.always_accept_admission_reviews_on_namespace # None
  /\ namespace = env.always_accept_admission_reviews_on_namespace[1]

\* the answer of a usable entry of the environment
Evaluate(env, entry, namespace, input, short) ==
  IF AlwaysAccepted(env, namespace) THEN Accepted(FALSE)
  ELSE IF entry.kind = "group" THEN ValidateGroup(entry, input, short)
  ELSE PolicyModeRewrite(entry.policy_mode, ValidateSingle(entry, input))

\* an environment that evaluates whatever PolicyId it is asked for
Validate_UnknownAccepted(env, policy_id, namespace, input, short) ==
  IF policy_id \notin DOMAIN env.policies THEN Accepted(FALSE)
  ELSE IF env.policies[policy_id].init_error # None
       THEN InitializationErrorResponse(env.policies[policy_id].init_error[1])
       ELSE Evaluate(env, env.policies[policy_id].policy, namespace, input, short)

\* EvaluationEnvironment::validate: the answer to a well-formed request
Validate(env, policy_id, namespace, input, short) ==
  IF policy_id \notin DOMAIN env.policies THEN HttpStatus(404)
  ELSE IF env.policies[policy_id].init_error # None
       THEN InitializationErrorResponse(env.policies[policy_id].init_error[1])
       ELSE Evaluate(env, env.policies[policy_id].policy, namespace, input, short)

\* the members of a group whose sandboxes a request runs
GroupMembersInvoked(env, policy_id, namespace, input, short) ==
  IF /\ policy_id \in DOMAIN env.policies
     /\ env.policies[policy_id].init_error = None
     /\ env.policies[policy_id].policy.kind = "group"
     /\ ~AlwaysAccepted(env, namespace)
  THEN MembersEvaluated(env.policies[policy_id].policy, input, short)
  ELSE {}

\* the artifacts whose sandboxes a request runs
SandboxesInvoked(env, policy_id, namespace, input, short) ==
  IF \/ policy_id \notin DOMAIN env.policies
     \/ env.policies[policy_id].init_error # None
     \/ AlwaysAccepted(env, namespace)
  THEN {}
  ELSE IF env.policies[policy_id].policy.kind = "group"
       THEN {MemberModule(n) : n \in GroupMembersInvoked(env, policy_id, namespace,
                                                         input, short)}
       ELSE {env.policies[policy_id].policy.module}

\* the body of a request: a well-formed admission review, the JSON object {}
\* that lacks the required fields, or text that is not JSON
Bodies == {"review", "empty_object", "malformed"}
AnyInput == [u \in Urls |-> "allow"]
IdleCall == [st |-> "idle", route |-> "validate", policy |-> "does_not_exist",
             body |-> "review", namespace |-> "default", input |-> AnyInput,
             evaluated |-> FALSE, members_evaluated |-> {}, sandboxes |-> {},
             resp |-> HttpStatus(0)]

\* ------------------------------------------------------------------------
\* State
\* ------------------------------------------------------------------------
VARIABLES
  cfg,                  \* Config: platform of the build, tls_config, pool_size, limit
  phase,                \* "init", "serving" or "boot_failed"
  disk,                 \* content of every file
  queue,                \* inotify event stream: watch descriptors not yet read
  watcher,              \* "none", "running" or "stopped": the watcher task
  cert_changed,         \* dirty flags of the watcher task
  key_changed,
  client_cert_changed,
  active,               \* Option<ServerConfig> the listener hands to handshakes
  conns,                \* per connection: the context it was established under
  built,                \* history: every context a build has produced
  last,                 \* history: what the last watcher iteration did
  writes,               \* history: paths written, in order
  semaphore,            \* ApiServerState.semaphore: permits available
  epoch,                \* the engine's epoch counter
  epoch_interruption,   \* wasmtime Config: epoch interruption enabled
  eval_limit,           \* Option: limit set on the evaluation environment
  ticker,               \* the ticker task has been spawned
  now,                  \* seconds elapsed since boot
  req,                  \* the admission requests
  registry,             \* per artifact: what fetching and compiling it gives
  precompiled_policies, \* Option: the map precompile_policies returned
  evaluation_environment, \* Option: ApiServerState.evaluation_environment
  boot_error,           \* Option: the error new_from_config returned
  call,                 \* the admission request last handled, with its answer
  served,               \* how many admission requests have been answered
  short_circuit,        \* the expression engine of the groups short-circuits
  world,                \* what the world outside does to the steps of the boot
  sigstore_trust_root,  \* Option: the trust root new_from_config holds
  kube_client,          \* Option: the client handed to the callback handler
  logged,               \* warnings the boot has logged
  run_pc,               \* where PolicyServer::run is
  callback_handler,     \* the CallbackHandler task
  shutdown_sent,        \* callback_handler_shutdown_channel_tx has been used
  notify,               \* the Notify of run holds a permit
  server,               \* the API server and the readiness probe server
  probe                 \* the request last sent to the readiness address

tlsVars == <<disk, queue, watcher, cert_changed, key_changed, client_cert_changed,
             active, conns, built, last, writes>>
engineVars == <<semaphore, epoch, epoch_interruption, eval_limit, ticker>>
httpVars == <<now, req>>
policyVars == <<registry, short_circuit, precompiled_policies, evaluation_environment,
               boot_error>>
callVars == <<call, served>>
bootVars == <<sigstore_trust_root, kube_client, logged>>
runVars == <<run_pc, callback_handler, shutdown_sent, notify, server, probe>>

vars == <<cfg, phase, disk, queue, watcher, cert_changed, key_changed,
          client_cert_changed, active, conns, built, last, writes,
          semaphore, epoch, epoch_interruption, eval_limit, ticker, now, req,
          registry, precompiled_policies, evaluation_environment, boot_error,
          call, served, short_circuit, world, sigstore_trust_root, kube_client,
          logged, run_pc, callback_handler, shutdown_sent, notify, server, probe>>

\* ------------------------------------------------------------------------
\* The steps of new_from_config that depend on the world outside
\* ------------------------------------------------------------------------
\* what the world does to the boot: create_sigstore_trustroot succeeds or one
\* of its steps fails, the connection to Kubernetes, the construction of
\* callback handler, downloader and engine, the registration of the watches
Worlds ==
  [sigstore : {"ok", "cache_dir", "tuf", "fulcio_certs", "rekor_keys"}, kube : {"ok", "unreachable"},
   callback_handler : {"ok", "error"}, downloader : {"ok", "error"},
   engine : {"ok", "error"}, inotify : {"ok", "error"}]
AllFine == [sigstore |-> "ok", kube |-> "ok", callback_handler |-> "ok",
            downloader |-> "ok", engine |-> "ok", inotify |-> "ok"]

\* create_tls_config_and_watch_certificate_changes: the context is loaded,
\* then, on linux, inotify is initialised and the watches are added
CreateTlsConfigAndWatch(platform, tc, d, inotify) ==
  LET config == InitialTlsConfig(platform, tc, d)
  IN IF config.ok /\ platform = "linux" /\ inotify = "error"
     THEN Err("Cannot initialize inotify")
     ELSE config

\* a trust root that answers a missing certificate or key with an error too
CreateSigstoreTrustroot_AllErrors(sigstore) ==
  IF sigstore = "ok" THEN [outcome |-> "ok", err |-> <<>>]
  ELSE [outcome |-> "err", err |-> <<sigstore>>]

\* create_sigstore_trustroot: create_dir_all and SigstoreTrustRoot::new hand
\* their error on with ?, fulcio_certs() and rekor_keys() are unwrapped with
\* expect
CreateSigstoreTrustroot(sigstore) ==
  CASE sigstore = "ok" -> [outcome |-> "ok", err |-> <<>>]
    [] sigstore = "cache_dir" ->
         [outcome |-> "err", err |-> <<"Cannot create directory to cache sigstore data">>]
    [] sigstore = "tuf" -> [outcome |-> "err", err |-> <<"tuf">>]
    [] OTHER -> [outcome |-> "panic", err |-> <<>>]

\* match create_sigstore_trustroot(&config).await: Ok => Some, Err => warn!, None
SigstoreTrustRoot(trust_root) ==
  IF trust_root.outcome = "ok" THEN Some("trust_root") ELSE None
SigstoreWarning ==
  "Cannot create Sigstore trust root, verification relying on Rekor and Fulcio will fail"
SigstoreWarnings(trust_root) ==
  IF trust_root.outcome = "err" THEN {SigstoreWarning} ELSE {}

\* a boot that never gets a cluster client
KubeClient_Never(kube) == None

\* kube::Client::try_default(); Some(client) is handed to the builder of
\* the CallbackHandler
KubeClient(kube) == IF kube = "ok" THEN Some("client") ELSE None

\* a boot that goes on whatever fails before the policies are downloaded
EarlyBootErrors_None(ignore_kubernetes_connection_failure, w) == <<>>

\* the errors new_from_config returns before it downloads the policies, and
\* the one of Engine::new, in the order of the code: Option of the first
EarlyBootErrors(ignore_kubernetes_connection_failure, w) ==
  IF KubeClient(w.kube) = None /\ ~ignore_kubernetes_connection_failure
  THEN Some(Error(<<"Cannot connect to Kubernetes, context aware policies would not work properly">>,
                  <<>>))
  ELSE IF w.callback_handler = "error" THEN Some(Error(<<"callback_handler">>, <<>>))
  ELSE IF w.downloader = "error" THEN Some(Error(<<"downloader">>, <<>>))
  ELSE IF w.engine = "error" THEN Some(Error(<<"engine">>, <<>>))
  ELSE None

\* the two servers of run, and a readiness probe nobody has sent yet
Servers == {"api", "readiness"}
NoProbe == [scheme |-> "", method |-> "", path |-> "", status |-> 0]

NoStep == [flags |-> <<FALSE, FALSE, FALSE>>, rebuilt |-> FALSE, ok |-> FALSE,
           logs |-> {}, fails |-> 0]

\* the TlsConfig values the model boots with
TlsConfigs ==
  {[cert_file |-> CertPath, key_file |-> k, client_ca_file |-> ca] :
     k \in {KeyPath, CertPath}, ca \in {None, Some(CaPath)}}

PlainTlsConfig == [cert_file |-> CertPath, key_file |-> KeyPath, client_ca_file |-> None]

\* the files as they are when the server boots
InitDisks(tc) ==
  IF tc.key_file = tc.cert_file
  THEN {[p \in Paths |-> IF p = CertPath THEN <<Cert(1), Key(1)>> ELSE <<Cert(1)>>]}
  ELSE {[p \in Paths |-> IF p = KeyPath THEN k ELSE IF p = CertPath THEN c ELSE <<Cert(1)>>] :
          c \in {<<Cert(1)>>, AllCerts, <<>>}, k \in {<<Key(1)>>, AllKeys, <<>>}}

\* everything but the configuration and the files, before new_from_config
InitCommon ==
  /\ phase = "init"
  /\ queue = <<>>
  /\ watcher = "none"
  /\ cert_changed = FALSE
  /\ key_changed = FALSE
  /\ client_cert_changed = FALSE
  /\ active = None
  /\ conns = [c \in ConnIds |-> None]
  /\ built = {}
  /\ last = NoStep
  /\ writes = <<>>
  /\ semaphore = 0
  /\ epoch = 0
  /\ epoch_interruption = FALSE
  /\ eval_limit = None
  /\ ticker = FALSE
  /\ now = 0
  /\ req = [r \in ReqIds |-> IdleRequest]
  /\ precompiled_policies = None
  /\ evaluation_environment = None
  /\ boot_error = None
  /\ call = IdleCall
  /\ served = 0
  /\ sigstore_trust_root = None
  /\ kube_client = None
  /\ logged = {}
  /\ run_pc = "not_called"
  /\ callback_handler = "not_started"
  /\ shutdown_sent = FALSE
  /\ notify = FALSE
  /\ server = [s \in Servers |-> "unbound"]
  /\ probe = NoProbe

\* the configurations of the TLS manager
InitTLS ==
  /\ cfg \in {[platform |-> pf, tls_config |-> t, pool_size |-> 1,
               policy_evaluation_limit_seconds |-> None,
               policies |-> DefaultPolicies, continue_on_errors |-> FALSE,
               always_accept_admission_reviews_on_namespace |-> None,
               ignore_kubernetes_connection_failure |-> FALSE] :
                pf \in {"linux", "other"},
                t \in {None} \cup {Some(tc) : tc \in TlsConfigs}}
  /\ disk \in (IF cfg.tls_config = None THEN InitDisks(PlainTlsConfig)
               ELSE InitDisks(cfg.tls_config[1]))
  /\ registry = [u \in Urls |-> "ok"]
  /\ short_circuit = TRUE
  /\ world = AllFine
  /\ InitCommon

\* the configurations of the admission HTTP surface, served without TLS
InitHTTP ==
  /\ cfg \in {[platform |-> "linux", tls_config |-> None, pool_size |-> n,
               policy_evaluation_limit_seconds |-> l,
               policies |-> DefaultPolicies, continue_on_errors |-> FALSE,
               always_accept_admission_reviews_on_namespace |-> None,
               ignore_kubernetes_connection_failure |-> FALSE] :
                n \in 1..MaxPool,
                l \in {None} \cup {Some(k) : k \in 1..MaxLimit}}
  /\ disk = [p \in Paths |-> <<>>]
  /\ registry = [u \in Urls |-> "ok"]
  /\ short_circuit = TRUE
  /\ world = AllFine
  /\ InitCommon

\* the configurations of the policies: what is configured, what the
\* registry holds, whether errors are fatal, and whether the groups'
\* expressions are evaluated in full or short-circuit
InitPolicies ==
  /\ cfg \in {[platform |-> "linux", tls_config |-> None, pool_size |-> 1,
               policy_evaluation_limit_seconds |-> Some(MaxLimit),
               policies |-> TestPolicies(w, e, m), continue_on_errors |-> c,
               always_accept_admission_reviews_on_namespace |-> n,
               ignore_kubernetes_connection_failure |-> FALSE] :
                w \in BOOLEAN, e \in GroupExpressions, m \in {{}, {"b"}},
                c \in BOOLEAN, n \in {None, Some(AlwaysAcceptedNamespace)}}
  /\ disk = [p \in Paths |-> <<>>]
  /\ registry \in [Urls -> ArtifactStates]
  /\ short_circuit \in BOOLEAN
  /\ world = AllFine
  /\ InitCommon

\* ------------------------------------------------------------------------
\* Boot: PolicyServer::new_from_config
\* ------------------------------------------------------------------------
\* new_from_config returns an error: no server is created
BootFails(e) ==
  /\ phase' = "boot_failed"
  /\ boot_error' = Some(e)
  /\ UNCHANGED <<active, built, watcher, epoch_interruption, eval_limit, ticker,
                 semaphore, evaluation_environment>>

\* a step of create_sigstore_trustroot calls expect on an Err: the task
\* that runs new_from_config panics
BootPanics ==
  /\ phase' = "panicked"
  /\ UNCHANGED <<active, built, watcher, epoch_interruption, eval_limit, ticker,
                 semaphore, evaluation_environment, boot_error, bootVars,
                 precompiled_policies>>

\* new_from_config from the download of the policies on
DownloadAndBuild ==
  \E order \in Orders(PolicyUrls(cfg.policies)) :
       LET limit == cfg.policy_evaluation_limit_seconds
           fetched_policies == DownloadPolicies(PolicyUrls(cfg.policies), registry)
           precompiled == PrecompilePolicies(order, registry, fetched_policies)
           boot_errors == BootErrors(cfg.continue_on_errors, precompiled)
           build_errors == BuildErrors(cfg.continue_on_errors, cfg.policies, precompiled)
           res == IF cfg.tls_config = None THEN Ok(NullCtx)
                  ELSE CreateTlsConfigAndWatch(cfg.platform, cfg.tls_config[1], disk,
                                               world.inotify)
       IN /\ precompiled_policies' = Some(precompiled)
          /\ IF boot_errors # {} THEN \E e \in boot_errors : BootFails(e)
             ELSE IF build_errors # {} THEN \E e \in build_errors : BootFails(e)
             ELSE IF ~res.ok THEN BootFails(Error(<<res.err>>, <<>>))
             ELSE /\ phase' = "serving"
                  /\ boot_error' = None
                  /\ evaluation_environment' =
                       Some([policies |-> BuildEnvironment(cfg.policies, precompiled),
                             always_accept_admission_reviews_on_namespace |->
                               cfg.always_accept_admission_reviews_on_namespace])
                  /\ epoch_interruption' = EpochInterruption(limit)
                  /\ eval_limit' = EvaluationLimit(limit)
                  /\ ticker' = TickerSpawned(limit)
                  /\ semaphore' = SemaphoreNew(cfg.pool_size)
                  /\ IF cfg.tls_config = None
                     THEN UNCHANGED <<active, built, watcher>>
                     ELSE /\ active' = Some(res.val)
                          /\ built' = {res.val}
                          /\ watcher' = IF cfg.platform = "linux" THEN "running" ELSE "none"

Boot ==
  /\ phase = "init"
  /\ LET trust_root == CreateSigstoreTrustroot(world.sigstore)
         early == EarlyBootErrors(cfg.ignore_kubernetes_connection_failure, world)
     IN IF trust_root.outcome = "panic" THEN BootPanics
        ELSE /\ sigstore_trust_root' = SigstoreTrustRoot(trust_root)
             /\ logged' = SigstoreWarnings(trust_root)
             /\ kube_client' = KubeClient(world.kube)
             /\ IF early # <<>>
                THEN BootFails(early[1]) /\ UNCHANGED precompiled_policies
                ELSE DownloadAndBuild
  /\ UNCHANGED <<cfg, world, runVars, disk, queue, cert_changed, key_changed,
                 client_cert_changed, conns, last, writes, epoch, now, req, registry,
                 short_circuit, callVars>>

\* ------------------------------------------------------------------------
\* The environment rewrites a file; a watched file yields a CLOSE_WRITE event
\* ------------------------------------------------------------------------
Watched(p) ==
  /\ watcher # "none"
  /\ \/ p = cfg.tls_config[1].cert_file
     \/ p = cfg.tls_config[1].key_file
     \/ cfg.tls_config[1].client_ca_file = Some(p)

ContentsFor(p) ==
  IF cfg.tls_config = None THEN {<<>>}
  ELSE LET tc == cfg.tls_config[1]
       IN IF p = tc.cert_file /\ p = tc.key_file THEN CombinedContents
          ELSE IF p = tc.cert_file THEN CertFileContents
          ELSE IF p = tc.key_file THEN KeyFileContents
          ELSE CaFileContents

WriteFile(p, content) ==
  /\ phase = "serving"
  /\ Len(writes) < MaxWrites
  /\ disk' = [disk EXCEPT ![p] = content]
  /\ queue' = IF Watched(p) THEN Append(queue, p) ELSE queue
  /\ writes' = Append(writes, p)
  /\ UNCHANGED <<cfg, world, bootVars, runVars, phase, policyVars, callVars, watcher, cert_changed, key_changed, client_cert_changed,
                 active, conns, built, last>>
  /\ UNCHANGED <<engineVars, httpVars>>

\* ------------------------------------------------------------------------
\* One iteration of the watcher task's loop
\* ------------------------------------------------------------------------
\* the stream yields Err instead of an event: inotify could not be read
ReadError == "Err"

\* the stream of the watcher yields an error
EventError ==
  /\ phase = "serving"
  /\ watcher = "running"
  /\ Cardinality({i \in DOMAIN queue : queue[i] = ReadError}) < MaxReadErrors
  /\ queue' = Append(queue, ReadError)
  /\ UNCHANGED <<cfg, world, bootVars, runVars, phase, policyVars, callVars, disk, writes,
                 watcher, cert_changed, key_changed, client_cert_changed, active, conns,
                 built, last>>
  /\ UNCHANGED <<engineVars, httpVars>>

\* a watcher that gives up at the first event it cannot read
AfterReadError_Breaks(cert_chg, key_chg, client_chg) ==
  [flags |-> <<cert_chg, key_chg, client_chg>>, watcher |-> "stopped"]

\* Err(e) => { warn!(...); continue; }: the flags are not touched and the
\* loop goes to the next event
AfterReadError(cert_chg, key_chg, client_chg) ==
  [flags |-> <<cert_chg, key_chg, client_chg>>, watcher |-> "running"]

HandleEvent ==
  /\ phase = "serving"
  /\ watcher = "running"
  /\ queue # <<>>
  /\ LET wd == Head(queue)
         tc == cfg.tls_config[1]
         c1 == cert_changed \/ (wd = tc.cert_file)
         k1 == key_changed \/ (wd = tc.key_file)
         a1 == client_cert_changed \/ (tc.client_ca_file = Some(wd))
         res == BuildTlsServerConfig(tc, disk)
         skip == AfterReadError(cert_changed, key_changed, client_cert_changed)
     IN /\ queue' = Tail(queue)
        /\ IF wd = ReadError
           THEN /\ cert_changed' = skip.flags[1]
                /\ key_changed' = skip.flags[2]
                /\ client_cert_changed' = skip.flags[3]
                /\ watcher' = skip.watcher
                /\ last' = [flags |-> skip.flags, rebuilt |-> FALSE, ok |-> FALSE,
                            logs |-> {"warn"}, fails |-> last.fails]
                /\ UNCHANGED <<active, built>>
           ELSE IF ReloadCondition(c1, k1, a1)
           THEN /\ cert_changed' = FlagsAfterTrigger(res, c1, k1, a1)[1]
                /\ key_changed' = FlagsAfterTrigger(res, c1, k1, a1)[2]
                /\ client_cert_changed' = FlagsAfterTrigger(res, c1, k1, a1)[3]
                /\ active' = Some(AfterBuild(active[1], res))
                /\ built' = IF res.ok THEN built \cup {res.val} ELSE built
                /\ watcher' = WatcherAfterBuild(res)
                /\ last' = [flags |-> <<c1, k1, a1>>, rebuilt |-> TRUE, ok |-> res.ok,
                            logs |-> IF res.ok THEN {"info"} ELSE {"info", "error"},
                            fails |-> IF res.ok THEN last.fails ELSE last.fails + 1]
           ELSE /\ cert_changed' = c1
                /\ key_changed' = k1
                /\ client_cert_changed' = a1
                /\ last' = [flags |-> <<c1, k1, a1>>, rebuilt |-> FALSE, ok |-> FALSE,
                            logs |-> {"info"}, fails |-> last.fails]
                /\ UNCHANGED <<active, built, watcher>>
  /\ UNCHANGED <<cfg, world, bootVars, runVars, phase, policyVars, callVars, disk, conns, writes>>
  /\ UNCHANGED <<engineVars, httpVars>>

\* ------------------------------------------------------------------------
\* Connections to the API listener
\* ------------------------------------------------------------------------
\* a handshake takes the context the listener holds at that moment
Handshake(c) ==
  /\ phase = "serving"
  /\ active # None
  /\ conns[c] = None
  /\ conns' = [conns EXCEPT ![c] = active]
  /\ UNCHANGED <<cfg, world, bootVars, runVars, phase, policyVars, callVars, disk, queue, watcher, cert_changed, key_changed,
                 client_cert_changed, active, built, last, writes>>
  /\ UNCHANGED <<engineVars, httpVars>>

CloseConn(c) ==
  /\ conns[c] # None
  /\ conns' = [conns EXCEPT ![c] = None]
  /\ UNCHANGED <<cfg, world, bootVars, runVars, phase, policyVars, callVars, disk, queue, watcher, cert_changed, key_changed,
                 client_cert_changed, active, built, last, writes>>
  /\ UNCHANGED <<engineVars, httpVars>>

NextTLS ==
  \/ Boot
  \/ \E p \in Paths : \E content \in ContentsFor(p) : WriteFile(p, content)
  \/ HandleEvent
  \/ \E c \in ConnIds : Handshake(c)
  \/ \E c \in ConnIds : CloseConn(c)

SpecTLS == InitTLS /\ [][NextTLS]_vars

\* ------------------------------------------------------------------------
\* The epoch ticker and the passing of time
\* ------------------------------------------------------------------------
Evaluating(r) == req[r].st = "evaluating"
\* a deadline that has passed as soon as the limit is reached
InterruptDue_AtLimit(r) ==
  /\ Evaluating(r)
  /\ epoch_interruption
  /\ eval_limit # None
  /\ epoch - req[r].start_epoch >= eval_limit[1]

\* the deadline of evaluation r has passed: the guest is interrupted at its
\* next check of the epoch
InterruptDue(r) ==
  /\ Evaluating(r)
  /\ epoch_interruption
  /\ eval_limit # None
  /\ epoch - req[r].start_epoch > eval_limit[1]
\* the guest of evaluation r has run for as long as it needs
GuestDone(r) ==
  /\ Evaluating(r)
  /\ now - req[r].start_now >= req[r].dur
\* a second can pass only when no evaluation is about to leave the sandbox;
\* past MaxTime the clock goes on only for the evaluations still running
SecondCanPass ==
  /\ phase = "serving"
  /\ now < MaxTime \/ \E r \in ReqIds : Evaluating(r)
  /\ \A r \in ReqIds : ~InterruptDue(r) /\ ~GuestDone(r)

\* the ticker task: interval.tick().await; engine.increment_epoch()
Tick ==
  /\ ticker
  /\ SecondCanPass
  /\ now' = now + 1
  /\ epoch' = IncrementEpoch(epoch)
  /\ UNCHANGED <<cfg, world, bootVars, runVars, phase, policyVars, callVars, tlsVars, semaphore, epoch_interruption, eval_limit, ticker, req>>

\* a second passes and there is no ticker task
SecondElapses ==
  /\ ~ticker
  /\ SecondCanPass
  /\ now' = now + 1
  /\ UNCHANGED <<cfg, world, bootVars, runVars, phase, policyVars, callVars, tlsVars, engineVars, req>>

\* ------------------------------------------------------------------------
\* The admission routes
\* ------------------------------------------------------------------------
\* a request with a well-formed body reaches one of the three routes
Arrive(r, route, policy, run) ==
  /\ phase = "serving"
  /\ req[r].st = "idle"
  /\ route = RouteOf(r)
  /\ policy \notin Policies => run = [verdict |-> "allow", dur |-> 0]
  /\ req' = [req EXCEPT ![r] = [IdleRequest EXCEPT !.st = "waiting", !.route = route,
                                  !.policy = policy, !.dur = run.dur,
                                  !.verdict = run.verdict]]
  /\ UNCHANGED <<cfg, world, bootVars, runVars, phase, policyVars, callVars, tlsVars, engineVars, now>>

\* the handler gets its permit and enters the evaluation
Acquire(r) ==
  /\ req[r].st = "waiting"
  /\ semaphore > 0
  /\ semaphore' = semaphore - 1
  /\ req' = [req EXCEPT ![r].st = "evaluating", ![r].start_epoch = epoch,
                        ![r].start_now = now]
  /\ UNCHANGED <<cfg, world, bootVars, runVars, phase, policyVars, callVars, tlsVars, epoch, epoch_interruption, eval_limit, ticker, now>>

\* an evaluation that is left without giving the permit back
Leave_KeepsPermit(r, how, response) ==
  /\ semaphore' = semaphore
  /\ req' = [req EXCEPT ![r] = [IdleRequest EXCEPT !.st = "answered", !.route = req[r].route,
                                  !.policy = req[r].policy, !.dur = req[r].dur,
                                  !.verdict = req[r].verdict,
                                  !.exit = how, !.resp = response]]
  /\ UNCHANGED <<cfg, world, bootVars, runVars, phase, policyVars, callVars, tlsVars, epoch, epoch_interruption, eval_limit, ticker, now>>

\* the evaluation is left with a response and the permit is given back
Leave(r, how, response) ==
  /\ semaphore' = semaphore + 1
  /\ req' = [req EXCEPT ![r] = [IdleRequest EXCEPT !.st = "answered", !.route = req[r].route,
                                  !.policy = req[r].policy, !.dur = req[r].dur,
                                  !.verdict = req[r].verdict,
                                  !.exit = how, !.resp = response]]
  /\ UNCHANGED <<cfg, world, bootVars, runVars, phase, policyVars, callVars, tlsVars, epoch, epoch_interruption, eval_limit, ticker, now>>

\* the PolicyId is not in the evaluation environment
PolicyNotFound(r) ==
  /\ Evaluating(r)
  /\ req[r].policy \notin Policies
  /\ Leave(r, "not_found", NotFoundResponse)

\* the guest runs to completion and answers
GuestFinish(r) ==
  /\ Evaluating(r)
  /\ req[r].policy \in Policies
  /\ GuestDone(r)
  /\ Leave(r, req[r].verdict, GuestResponse(req[r].verdict))

\* the engine interrupts the guest: execution deadline exceeded
Interrupt(r) ==
  /\ req[r].policy \in Policies
  /\ InterruptDue(r)
  /\ Leave(r, "deadline", DeadlineResponse)

NextHTTP ==
  \/ Boot
  \/ Tick
  \/ SecondElapses
  \/ \E r \in ReqIds, route \in Routes, policy \in RequestPolicies, run \in GuestRuns :
        Arrive(r, route, policy, run)
  \/ \E r \in ReqIds : Acquire(r)
  \/ \E r \in ReqIds : PolicyNotFound(r)
  \/ \E r \in ReqIds : GuestFinish(r)
  \/ \E r \in ReqIds : Interrupt(r)

SpecHTTP == InitHTTP /\ [][NextHTTP]_vars

\* the guests the fair runs are checked with: one that answers at once and
\* one that sleeps for the longest time
QuickAndSlowRuns == {g \in GuestRuns : g.verdict = "allow" /\ g.dur \in {0, MaxDur}}

NextFairHTTP ==
  \/ Boot
  \/ Tick
  \/ SecondElapses
  \/ \E r \in ReqIds, route \in Routes, policy \in RequestPolicies, run \in QuickAndSlowRuns :
        Arrive(r, route, policy, run)
  \/ \E r \in ReqIds : Acquire(r)
  \/ \E r \in ReqIds : PolicyNotFound(r)
  \/ \E r \in ReqIds : GuestFinish(r)
  \/ \E r \in ReqIds : Interrupt(r)

\* fair scheduling of the admission surface: time passes, a guest that is
\* done or past its deadline leaves the sandbox, and the semaphore hands its
\* permits out in the order they were asked for, so that a handler that can
\* get a permit again and again does get one
FairSpecHTTP ==
  /\ InitHTTP /\ [][NextFairHTTP]_vars
  /\ WF_vars(Tick)
  /\ WF_vars(SecondElapses)
  /\ \A r \in ReqIds : /\ SF_vars(Acquire(r))
                        /\ WF_vars(PolicyNotFound(r))
                        /\ WF_vars(GuestFinish(r))
                        /\ WF_vars(Interrupt(r))

\* a client sends the request of q once more, to the same route
Repeat(r, q) ==
  /\ phase = "serving"
  /\ r # q
  /\ req[r].st = "idle"
  /\ req[q].st # "idle"
  /\ req' = [req EXCEPT ![r] = [IdleRequest EXCEPT !.st = "waiting",
                                  !.route = req[q].route, !.policy = req[q].policy,
                                  !.dur = req[q].dur, !.verdict = req[q].verdict]]
  /\ UNCHANGED <<cfg, world, bootVars, runVars, phase, policyVars, callVars, tlsVars, engineVars, now>>

NextRepeat ==
  \/ NextHTTP
  \/ \E r, q \in ReqIds : Repeat(r, q)

\* the admission HTTP surface with clients that repeat requests
SpecRepeat == InitHTTP /\ [][NextRepeat]_vars

\* ------------------------------------------------------------------------
\* The admission handlers against the evaluation environment
\* ------------------------------------------------------------------------
\* a body that does not make an admission review is refused
JsonRejection_None(body) == None

\* the extraction of the body: Option of the HTTP status it is refused with
JsonRejection(body) == IF body = "review" THEN None ELSE Some(422)

\* a handler that drops the policy it has evaluated from the environment
Handle_Evicts(route, policy_id, body, namespace, input) ==
  /\ phase = "serving"
  /\ call.st = "idle"
  /\ served < MaxCalls
  /\ body = "review"
  /\ cfg.always_accept_admission_reviews_on_namespace = None => namespace = "default"
  /\ LET env == evaluation_environment[1]
     IN /\ call' = [IdleCall EXCEPT !.st = "answered", !.route = route,
                                    !.policy = policy_id, !.namespace = namespace,
                                    !.input = input, !.evaluated = TRUE,
                                    !.resp = Validate(env, policy_id, namespace, input,
                                                      short_circuit)]
        /\ evaluation_environment' =
             Some([env EXCEPT !.policies =
                     [id \in DOMAIN env.policies \ {policy_id} |-> env.policies[id]]])
  /\ served' = served + 1
  /\ UNCHANGED <<cfg, world, bootVars, runVars, phase, tlsVars, engineVars, httpVars, registry, short_circuit,
                 precompiled_policies, boot_error>>

\* the handler of a route, from the request to its answer: the body is
\* extracted, then a permit is taken, the environment evaluates and the
\* permit is given back
Handle(route, policy_id, body, namespace, input) ==
  /\ phase = "serving"
  /\ call.st = "idle"
  /\ served < MaxCalls
  /\ semaphore > 0
  \* what is never looked at is left at one value: the review of a body
  \* that is refused, the namespace when none is always accepted
  /\ body # "review" => (input = AnyInput /\ namespace = "default")
  /\ cfg.always_accept_admission_reviews_on_namespace = None => namespace = "default"
  /\ LET env == evaluation_environment[1]
         parsed == JsonRejection(body) = None
     IN call' = [st |-> "answered", route |-> route, policy |-> policy_id,
                 body |-> body, namespace |-> namespace, input |-> input,
                 evaluated |-> parsed,
                 resp |-> IF ~parsed THEN HttpStatus(JsonRejection(body)[1])
                          ELSE Validate(env, policy_id, namespace, input, short_circuit),
                 members_evaluated |->
                   IF parsed
                   THEN GroupMembersInvoked(env, policy_id, namespace, input,
                                            short_circuit)
                   ELSE {},
                 sandboxes |->
                   IF parsed
                   THEN SandboxesInvoked(env, policy_id, namespace, input, short_circuit)
                   ELSE {}]
  /\ served' = served + 1
  /\ UNCHANGED <<cfg, world, bootVars, runVars, phase, tlsVars, engineVars, httpVars, policyVars>>

\* the answer has gone out to the client: the next request can come
Respond ==
  /\ call.st = "answered"
  /\ call' = IdleCall
  /\ UNCHANGED <<cfg, world, bootVars, runVars, phase, tlsVars, engineVars, httpVars, policyVars, served>>

\* the PolicyIds requests are addressed to
CalledPolicies ==
  {"pod-privileged", "raw-mutation", "monitor", "invalid_settings", "group-policy",
   "does_not_exist"}

NextPolicies ==
  \/ Boot
  \/ /\ call.st = "idle"
     /\ \E route \in Routes, policy_id \in CalledPolicies, body \in Bodies,
           namespace \in Namespaces, input \in Inputs :
           Handle(route, policy_id, body, namespace, input)
  \/ Respond

SpecPolicies == InitPolicies /\ [][NextPolicies]_vars

\* ------------------------------------------------------------------------
\* PolicyServer::run
\* ------------------------------------------------------------------------
\* everything run leaves alone
RunFrame ==
  UNCHANGED <<cfg, phase, world, bootVars, tlsVars, engineVars, httpVars, policyVars,
              callVars>>

\* run is called on the server new_from_config returned: the CallbackHandler
\* task is spawned, then the two server futures are joined
SpawnCallbackHandler ==
  /\ phase = "serving"
  /\ run_pc = "not_called"
  /\ run_pc' = "joined"
  /\ callback_handler' = "running"
  /\ UNCHANGED <<shutdown_sent, notify, server, probe>>
  /\ RunFrame

\* an API server future whose notification only reaches a future that is
\* already waiting (no permit is stored)
ApiServerStart_NoPermit ==
  /\ run_pc = "joined"
  /\ server["api"] = "unbound"
  /\ server' = [server EXCEPT !["api"] = "created"]
  /\ notify' = FALSE
  /\ UNCHANGED <<run_pc, callback_handler, shutdown_sent, probe>>
  /\ RunFrame

\* the API server future: the server is created for addr and the readiness
\* future is notified; notify_one stores a permit when nobody waits yet
ApiServerStart ==
  /\ run_pc = "joined"
  /\ server["api"] = "unbound"
  /\ server' = [server EXCEPT !["api"] = "created"]
  /\ notify' = TRUE
  /\ UNCHANGED <<run_pc, callback_handler, shutdown_sent, probe>>
  /\ RunFrame

\* serve binds the socket of the API server and accepts, or fails
ApiServerServe(bound) ==
  /\ run_pc = "joined"
  /\ server["api"] = "created"
  /\ server' = [server EXCEPT !["api"] = IF bound THEN "serving" ELSE "failed"]
  /\ UNCHANGED <<run_pc, callback_handler, shutdown_sent, notify, probe>>
  /\ RunFrame

\* the readiness future: once notified, its socket is bound and it serves,
\* or fails
ReadinessServerServe(bound) ==
  /\ run_pc = "joined"
  /\ server["readiness"] = "unbound"
  /\ notify
  /\ notify' = FALSE
  /\ server' = [server EXCEPT !["readiness"] = IF bound THEN "serving" ELSE "failed"]
  /\ UNCHANGED <<run_pc, callback_handler, shutdown_sent, probe>>
  /\ RunFrame

\* a server stops serving and its future returns Ok
ServerStops(s) ==
  /\ run_pc = "joined"
  /\ server[s] = "serving"
  /\ server' = [server EXCEPT ![s] = "stopped"]
  /\ UNCHANGED <<run_pc, callback_handler, shutdown_sent, notify, probe>>
  /\ RunFrame

\* a run that shuts the callback handler down before it returns the error
JoinFails_ShutsDown ==
  /\ run_pc = "joined"
  /\ \E s \in Servers : server[s] = "failed"
  /\ run_pc' = "returned_err"
  /\ shutdown_sent' = TRUE
  /\ server' = [s \in Servers |-> IF server[s] \in {"failed", "stopped"} THEN server[s]
                                   ELSE "dropped"]
  /\ UNCHANGED <<callback_handler, notify, probe>>
  /\ RunFrame

\* try_join! meets the Err of a server: the other future is dropped and run
\* returns the error
JoinFails ==
  /\ run_pc = "joined"
  /\ \E s \in Servers : server[s] = "failed"
  /\ run_pc' = "returned_err"
  /\ server' = [s \in Servers |-> IF server[s] \in {"failed", "stopped"} THEN server[s]
                                   ELSE "dropped"]
  /\ UNCHANGED <<callback_handler, shutdown_sent, notify, probe>>
  /\ RunFrame

\* a run that signals the callback handler as soon as the API server is done
SendShutdown_AfterApi ==
  /\ run_pc = "joined"
  /\ server["api"] = "stopped"
  /\ shutdown_sent' = TRUE
  /\ run_pc' = "awaiting_callback_handler"
  /\ UNCHANGED <<callback_handler, notify, server, probe>>
  /\ RunFrame

\* try_join! returned Ok: the shutdown signal goes to the CallbackHandler
SendShutdown ==
  /\ run_pc = "joined"
  /\ \A s \in Servers : server[s] = "stopped"
  /\ shutdown_sent' = TRUE
  /\ run_pc' = "awaiting_callback_handler"
  /\ UNCHANGED <<callback_handler, notify, server, probe>>
  /\ RunFrame

\* loop_eval receives the shutdown signal and the task ends
CallbackHandlerExits ==
  /\ callback_handler = "running"
  /\ shutdown_sent
  /\ callback_handler' = "exited"
  /\ UNCHANGED <<run_pc, shutdown_sent, notify, server, probe>>
  /\ RunFrame

\* the JoinHandle of the CallbackHandler task resolves: run returns Ok
RunReturns ==
  /\ run_pc = "awaiting_callback_handler"
  /\ callback_handler = "exited"
  /\ run_pc' = "returned_ok"
  /\ UNCHANGED <<callback_handler, shutdown_sent, notify, server, probe>>
  /\ RunFrame

\* the configurations and worlds run is checked with
InitRun ==
  /\ cfg \in {[platform |-> "linux", tls_config |-> t, pool_size |-> 1,
               policy_evaluation_limit_seconds |-> None,
               policies |-> [id \in Policies |-> Policy(UrlPodPrivileged, "protect", v, FALSE)],
               continue_on_errors |-> c,
               always_accept_admission_reviews_on_namespace |-> None,
               ignore_kubernetes_connection_failure |-> i] :
                t \in {None} \cup {Some(tc) : tc \in TlsConfigs},
                v \in BOOLEAN, c \in BOOLEAN, i \in BOOLEAN}
  /\ disk \in (IF cfg.tls_config = None THEN {[p \in Paths |-> <<>>]}
               ELSE InitDisks(cfg.tls_config[1]))
  /\ registry \in {reg \in [Urls -> ArtifactStates] : reg[UrlRawMutation] = "ok"}
  /\ short_circuit = TRUE
  /\ world \in Worlds
  /\ InitCommon

NextRun ==
  \/ Boot
  \/ SpawnCallbackHandler
  \/ ApiServerStart
  \/ \E bound \in BOOLEAN : ApiServerServe(bound)
  \/ \E bound \in BOOLEAN : ReadinessServerServe(bound)
  \/ \E s \in Servers : ServerStops(s)
  \/ JoinFails
  \/ SendShutdown
  \/ CallbackHandlerExits
  \/ RunReturns

SpecRun == InitRun /\ [][NextRun]_vars

\* the runtime polls a future that can make progress: the two server
\* futures are polled by try_join!, the spawned task by the executor
FairSpecRun ==
  /\ SpecRun
  /\ WF_vars(ApiServerStart)
  /\ WF_vars(\E bound \in BOOLEAN : ApiServerServe(bound))
  /\ WF_vars(\E bound \in BOOLEAN : ReadinessServerServe(bound))
  /\ WF_vars(JoinFails)
  /\ WF_vars(SendShutdown)
  /\ WF_vars(CallbackHandlerExits)
  /\ WF_vars(RunReturns)

\* ------------------------------------------------------------------------
\* The readiness probe
\* ------------------------------------------------------------------------
\* what the listener of the API server speaks: bind_rustls with a TLS
\* configuration, bind without
ApiAcceptor(tls_config) == IF tls_config # None THEN "https" ELSE "http"

\* a readiness listener that is served like the API
ReadinessAcceptor_AsApi(tls_config) == ApiAcceptor(tls_config)

\* what the listener of the readiness server speaks: axum_server::bind
ReadinessAcceptor(tls_config) == "http"

\* readiness_handler answers with StatusCode::OK
ReadinessHandler == 200
\* readiness_probe_router: the status a request is answered with
ReadinessRouter(method, path) ==
  IF path # "/readiness" THEN 404 ELSE IF method # "GET" THEN 405 ELSE ReadinessHandler

\* a client sends a request to the readiness address; status 0: the
\* connection fails because client and listener do not speak the same
Probe(scheme, method, path) ==
  /\ server["readiness"] = "serving"
  /\ probe' = [scheme |-> scheme, method |-> method, path |-> path,
               status |-> IF scheme # ReadinessAcceptor(cfg.tls_config) THEN 0
                          ELSE ReadinessRouter(method, path)]
  /\ UNCHANGED <<run_pc, callback_handler, shutdown_sent, notify, server>>
  /\ RunFrame

NextReady ==
  \/ Boot
  \/ /\ Len(writes) < MaxProbedWrites
     /\ \E p \in Paths : \E content \in ContentsFor(p) : WriteFile(p, content)
  \/ HandleEvent
  \/ SpawnCallbackHandler
  \/ ApiServerStart
  \/ \E bound \in BOOLEAN : ApiServerServe(bound)
  \/ \E bound \in BOOLEAN : ReadinessServerServe(bound)
  \/ \E scheme \in {"http", "https"}, method \in {"GET", "POST"},
        path \in {"/readiness", "/validate/pod-privileged"} :
        Probe(scheme, method, path)

\* the TLS configurations of the API listener: none, a server certificate,
\* a client CA too; the files are sound when the server boots
InitReady ==
  /\ cfg \in {[platform |-> "linux", tls_config |-> t, pool_size |-> 1,
               policy_evaluation_limit_seconds |-> None,
               policies |-> DefaultPolicies, continue_on_errors |-> FALSE,
               always_accept_admission_reviews_on_namespace |-> None,
               ignore_kubernetes_connection_failure |-> FALSE] :
                t \in {None, Some(PlainTlsConfig),
                       Some([PlainTlsConfig EXCEPT !.client_ca_file = Some(CaPath)])}}
  /\ disk = [p \in Paths |-> IF p = KeyPath THEN <<Key(1)>> ELSE <<Cert(1)>>]
  /\ registry = [u \in Urls |-> "ok"]
  /\ short_circuit = TRUE
  /\ world = AllFine
  /\ InitCommon

\* the TLS manager and the servers of run, with clients probing readiness
SpecReady == InitReady /\ [][NextReady]_vars

\* the watcher task on a stream that can yield errors
NextWatch ==
  \/ Boot
  \/ \E p \in Paths : \E content \in ContentsFor(p) : WriteFile(p, content)
  \/ EventError
  \/ HandleEvent

SpecWatch == InitReady /\ [][NextWatch]_vars

\* ------------------------------------------------------------------------
\* Properties of the TLS manager
\* ------------------------------------------------------------------------
TlsOn == cfg.tls_config # None
Tc == cfg.tls_config[1]
\* a step of the watcher task: one event leaves the stream
WatcherStep == Len(queue') < Len(queue)
NumCerts(d) == Len(ParseCerts(d[Tc.cert_file]))
NumKeys(d) == Len(ParseKeys(d[Tc.key_file]))

\* C1: in a watcher iteration, once the event has set its dirty flag, a
\* rebuild is attempted if and only if (cert dirty and key dirty) or
\* (client CA dirty and cert dirty = key dirty); otherwise nothing is
\* attempted and the active TLS context stays as it was.
C1_RebuildIff ==
  [][WatcherStep =>
       LET c == last'.flags[1]
           k == last'.flags[2]
           a == last'.flags[3]
           due == (c /\ k) \/ (a /\ (c = k))
       IN /\ last'.rebuilt <=> due
          /\ ~due => (active' = active /\ built' = built /\ last'.fails = last.fails)]_vars

\* a rebuild triggered by the client CA alone, both server flags clean
C1_Witness ==
  last.rebuilt /\ last.flags = <<FALSE, FALSE, TRUE>>

\* C2: once the certificate file and the key file have both been rewritten
\* (the last two writes, in either order) with a loadable matching pair and
\* every event has been processed, the active context is the one built from
\* the files on disk.
C2_RotationInstalled ==
  (/\ phase = "serving"
   /\ watcher = "running"
   /\ queue = <<>>
   /\ Len(writes) >= 2
   /\ {writes[Len(writes) - 1], writes[Len(writes)]} = {Tc.cert_file, Tc.key_file}
   /\ BuildTlsServerConfig(Tc, disk).ok)
  => active = Some(BuildTlsServerConfig(Tc, disk).val)

\* C3: with the key flag and the client-CA flag clear, an event on the
\* certificate file alone never triggers a rebuild, however many of them
\* came before: the active context stays.
C3_CertOnlyNoRebuild ==
  [][(/\ WatcherStep
      /\ ~key_changed /\ ~client_cert_changed
      /\ Head(queue) = Tc.cert_file
      /\ Head(queue) # Tc.key_file
      /\ Tc.client_ca_file # Some(Head(queue)))
     => (~last'.rebuilt /\ active' = active /\ cert_changed')]_vars

\* two writes of the certificate file and nothing else, both processed
C3_Witness ==
  /\ Len(writes) = 2
  /\ \A i \in 1..Len(writes) : writes[i] = CertPath
  /\ TlsOn /\ Tc.key_file # CertPath
  /\ queue = <<>>
  /\ cert_changed /\ ~key_changed /\ ~client_cert_changed
  /\ ~last.rebuilt

\* C4: a triggered rebuild that fails leaves the active context exactly as it
\* was, logs an error and leaves the watcher running.
C4_FailedRebuildKeepsContext ==
  [][(WatcherStep /\ last'.rebuilt /\ ~last'.ok)
     => (/\ active' = active
         /\ "error" \in last'.logs
         /\ watcher' = "running"
         /\ built' = built)]_vars

\* a successful rebuild that replaced the context after an earlier failure
C4_Witness ==
  /\ last.rebuilt /\ last.ok
  /\ last.fails > 0
  /\ active # None
  /\ active[1].key # 1

\* C5: the listener's context and the context of every connection is, as a
\* whole, the result of one successful build (at boot or by the watcher), and
\* an established connection keeps its context until it closes.
C5_WholeContext ==
  /\ [](active # None => active[1] \in built)
  /\ [](\A c \in ConnIds : conns[c] # None => conns[c][1] \in built)
  /\ [][\A c \in ConnIds :
          (conns[c] # None /\ conns'[c] # None) => conns'[c] = conns[c]]_vars

\* a connection still on the boot-time context after the listener moved on
C5_Witness ==
  \E c \in ConnIds :
    /\ conns[c] # None
    /\ conns[c] # active
    /\ last.rebuilt /\ last.ok

\* C6: while serving with TLS, every context ever activated requires client
\* certificates exactly when a client CA file is configured.
C6_ClientAuthIffClientCa ==
  (phase = "serving" /\ TlsOn)
  => \A ctx \in built : ctx.client_auth <=> (Tc.client_ca_file # None)

\* C7: build_tls_server_config succeeds only on a certificate file with
\* exactly one certificate and a key file with exactly one key; at boot on
\* linux anything else is fatal.
C7_ExactlyOneCertAndKey ==
  /\ [](TlsOn => (BuildTlsServerConfig(Tc, disk).ok
                    => (NumCerts(disk) = 1 /\ NumKeys(disk) = 1)))
  /\ [][(/\ phase = "init" /\ TlsOn /\ cfg.platform = "linux"
         /\ (NumCerts(disk) # 1 \/ NumKeys(disk) # 1))
        => phase' = "boot_failed"]_vars

\* boot refused on linux because the certificate file holds two certificates
C7_Witness ==
  /\ phase = "boot_failed"
  /\ cfg.platform = "linux"
  /\ NumCerts(disk) = 2
  /\ NumKeys(disk) = 1

\* ------------------------------------------------------------------------
\* Properties of the concurrency gate and of the evaluation deadline
\* ------------------------------------------------------------------------
InEvaluation == {r \in ReqIds : Evaluating(r)}
Limit == cfg.policy_evaluation_limit_seconds

\* C8: at no point are more than pool_size evaluations executing, whatever
\* the routes the requests came in on.
C8_AtMostPoolSize ==
  Cardinality(InEvaluation) <= cfg.pool_size

\* the cap is reached: pool_size evaluations run and a request of another
\* route is kept waiting
C8_Witness ==
  /\ Cardinality(InEvaluation) = cfg.pool_size
  /\ \E r \in InEvaluation, w \in ReqIds :
       req[w].st = "waiting" /\ req[w].route # req[r].route

\* C9: while serving, the permits held by evaluations plus the permits
\* available are pool_size; every way out of the evaluation gives the permit
\* back; a request that finds no permit waits and is not answered.
C9_PermitsConserved ==
  /\ [](phase = "serving" => Cardinality(InEvaluation) + semaphore = cfg.pool_size)
  /\ [][\A r \in ReqIds :
          /\ (Evaluating(r) /\ ~Evaluating(r)')
               => (semaphore' = semaphore + 1 /\ req'[r].st = "answered")
          /\ (~Evaluating(r) /\ Evaluating(r)')
               => (semaphore' = semaphore - 1 /\ req[r].st = "waiting")
          /\ (req[r].st = "idle" /\ req'[r].st # "idle")
               => (req'[r].st = "waiting" /\ req'[r].resp = NoResponse)
          /\ (req[r].st = "waiting" /\ semaphore = 0)
               => req'[r].st = "waiting"]_vars

\* every permit is back after a deadline interrupt and an unknown policy,
\* the second request having had to wait for the only permit
C9_Witness ==
  /\ cfg.pool_size = 1
  /\ semaphore = 1
  /\ \E r, w \in ReqIds :
       /\ req[r].st = "answered" /\ req[r].exit = "deadline"
       /\ req[w].st = "answered" /\ req[w].exit = "not_found"

\* C10: with a limit of L seconds, no evaluation is running more than L+1
\* seconds after it started, and the request of a guest that needs more than
\* L+1 seconds is answered 200 with allowed=false, code 500 and the
\* "execution deadline exceeded" message.
C10_DeadlineExceeded ==
  Limit # None =>
    \A r \in ReqIds :
      /\ Evaluating(r) => now - req[r].start_now <= Limit[1] + 1
      /\ (req[r].st = "answered" /\ req[r].policy \in Policies /\ req[r].dur > Limit[1] + 1)
           => /\ req[r].resp.http = 200
              /\ req[r].resp.allowed = FALSE
              /\ req[r].resp.code = 500
              /\ req[r].resp.message = DeadlineMessage

\* a guest that needed more than L+1 seconds has been interrupted
C10_Witness ==
  /\ Limit # None
  /\ \E r \in ReqIds :
       /\ req[r].st = "answered"
       /\ req[r].dur > Limit[1] + 1
       /\ req[r].exit = "deadline"
       /\ req[r].resp = DeadlineResponse

\* the epoch ticks the evaluation of r has seen since it started
ElapsedTicks(r) == epoch - req[r].start_epoch

\* C11: with a limit of L seconds, an evaluation is interrupted only when
\* more than L ticks have elapsed since it started; an evaluation that
\* leaves the sandbox with at most L ticks elapsed answers the guest's own
\* verdict, and a guest that needs at most L seconds never gets the deadline
\* error.
C11_InterruptOnlyPastLimit ==
  /\ [][\A r \in ReqIds :
          /\ (Evaluating(r) /\ req'[r].exit = "deadline")
               => (Limit # None /\ ElapsedTicks(r) > Limit[1])
          /\ (/\ Evaluating(r) /\ req[r].policy \in Policies
              /\ req'[r].st = "answered"
              /\ Limit # None /\ ElapsedTicks(r) <= Limit[1])
               => req'[r].resp = GuestResponse(req[r].verdict)]_vars
  /\ [](\A r \in ReqIds :
          (/\ Limit # None /\ req[r].st = "answered"
           /\ req[r].policy \in Policies /\ req[r].dur <= Limit[1])
            => (req[r].exit # "deadline" /\ req[r].resp.message # DeadlineMessage))

\* a guest that ran for exactly L seconds has answered its own verdict
C11_Witness ==
  /\ Limit # None
  /\ \E r \in ReqIds :
       /\ req[r].st = "answered"
       /\ req[r].dur = Limit[1]
       /\ req[r].exit = "allow"
       /\ req[r].resp = GuestResponse("allow")

\* C12: without policy_evaluation_limit_seconds the ticker task is never
\* started, the epoch stays what it was at construction and no evaluation is
\* interrupted by a deadline, however long it runs.
C12_NoLimitNoInterrupt ==
  Limit = None =>
    /\ ~ticker
    /\ epoch = 0
    /\ \A r \in ReqIds :
         /\ ~InterruptDue(r)
         /\ req[r].exit # "deadline"
         /\ req[r].resp # DeadlineResponse

\* without a limit, the longest guest has run to its end and answered
C12_Witness ==
  /\ Limit = None
  /\ now >= MaxDur
  /\ \E r \in ReqIds :
       /\ req[r].st = "answered"
       /\ req[r].dur = MaxDur
       /\ req[r].resp = GuestResponse("allow")

Answered == call.st = "answered"
Env == evaluation_environment[1].policies
Precompiled == precompiled_policies[1]

\* C14: on each of the three routes and for every admission input, a request
\* whose PolicyId is not in the evaluation environment is answered with HTTP
\* status 404.
C14_UnknownPolicy404 ==
  (Answered /\ call.body = "review" /\ call.policy \notin DOMAIN Env)
    => call.resp.http = 404

\* a request on the raw route for a PolicyId nobody configured, with an input
\* a policy would mutate, has got 404
C14_Witness ==
  /\ Answered
  /\ call.route = "validate_raw"
  /\ call.policy = "does_not_exist"
  /\ call.input[UrlRawMutation] = "mutate"
  /\ call.resp = HttpStatus(404)

\* C15: on each of the three routes, a request to a configured policy whose
\* body is not JSON or is the object {} is answered with HTTP status 422 and
\* no evaluation is started for it.
C15_MalformedBody422 ==
  (Answered /\ call.policy \in DOMAIN Env /\ call.body # "review")
    => (call.resp.http = 422 /\ ~call.evaluated /\ ~call.resp.allowed)

\* the body {} on the audit route of a configured policy has got 422
C15_Witness ==
  /\ Answered
  /\ call.route = "audit"
  /\ call.policy = "pod-privileged"
  /\ call.body = "empty_object"
  /\ call.resp = HttpStatus(422)

\* the error the registry, the compiler or the policy's own settings check
\* raises at boot for a single policy, if any
BootTimeError(id) ==
  LET entry == cfg.policies[id]
  IN IF registry[entry.module] = "fetch_error" THEN Some(FetchError(entry.module))
     ELSE IF registry[entry.module] = "compile_error" THEN Some(CompileError(entry.module))
     ELSE IF ~entry.settings_valid THEN Some(SettingsError(id))
     ELSE None
\* the single policies of the configuration, and the groups
SinglePolicies == {id \in DOMAIN cfg.policies : cfg.policies[id].kind = "policy"}
Groups == {id \in DOMAIN cfg.policies : cfg.policies[id].kind = "group"}

\* C16: with continue_on_errors the boot succeeds although an artifact
\* failed to download or to compile or a policy refuses its settings; every
\* request to such a policy, on any route and however many came before, is
\* answered 200 with allowed=false, code 500 and the message of the boot-time
\* error; a request to a sound policy is answered as if nothing were broken.
C16_ContinueOnErrors ==
  cfg.continue_on_errors =>
    /\ phase # "boot_failed"
    /\ (Answered /\ call.body = "review" /\ call.policy \in SinglePolicies)
         => IF BootTimeError(call.policy) # None
            THEN /\ call.resp.http = 200
                 /\ call.resp.allowed = FALSE
                 /\ call.resp.code = 500
                 /\ call.resp.message = BootTimeError(call.policy)[1].message
            ELSE call.resp = Evaluate(evaluation_environment[1], cfg.policies[call.policy],
                                      call.namespace, call.input, short_circuit)
    /\ (/\ Answered /\ call.body = "review" /\ call.policy \in Groups
        /\ \A u \in Urls : registry[u] = "ok")
         => call.resp = Evaluate(evaluation_environment[1], cfg.policies[call.policy],
                                 call.namespace, call.input, short_circuit)

\* with one artifact that did not download, the policy on it has answered
\* its second request with the download error while the sound policy beside
\* it is served
C16_Witness ==
  /\ cfg.continue_on_errors
  /\ registry[UrlPodPrivileged] = "ok"
  /\ registry[UrlRawMutation] = "fetch_error"
  /\ served = 2
  /\ Answered
  /\ call.route = "audit"
  /\ call.policy = "raw-mutation"
  /\ call.resp = Rejected(FetchError(UrlRawMutation).message, 500, <<>>)

\* C17: without continue_on_errors, an error among the entries of the
\* precompiled map makes new_from_config return an error carrying the message
\* of such an entry, and no server is created; so a server that serves
\* without continue_on_errors has only compiled modules in the map.
C17_ErrorsAreFatal ==
  (~cfg.continue_on_errors /\ precompiled_policies # None)
    => /\ (PrecompileErrors(Precompiled) # {})
            => /\ phase = "boot_failed"
               /\ evaluation_environment = None
               /\ served = 0
               /\ boot_error \in {Some(AnyhowFromString(e)) : e \in PrecompileErrors(Precompiled)}
       /\ (phase = "serving") => \A u \in DOMAIN Precompiled : Precompiled[u].ok

\* new_from_config has failed on a module that does not compile
C17_Witness ==
  /\ ~cfg.continue_on_errors
  /\ phase = "boot_failed"
  /\ registry[UrlPodPrivileged] = "compile_error"
  /\ registry[UrlRawMutation] = "ok"
  /\ boot_error = Some(Error(CompileError(UrlPodPrivileged).message, <<>>))

\* C18: the map precompile_policies returns has the URLs of the fetched map
\* as its keys; the entry of a URL that was not fetched is an error with the
\* message of the fetch error, the entry of a fetched URL is what compiling
\* the artifact gives; and this whatever order the workers deliver in.
C18_PrecompilePolicies ==
  precompiled_policies # None =>
    LET fetched_policies == DownloadPolicies(PolicyUrls(cfg.policies), registry)
    IN /\ DOMAIN Precompiled = DOMAIN fetched_policies
       /\ \A u \in DOMAIN fetched_policies :
            IF fetched_policies[u].ok
            THEN Precompiled[u] = PrecompiledPolicyNew(registry, fetched_policies[u].val)
            ELSE /\ ~Precompiled[u].ok
                 /\ Precompiled[u].err.message = fetched_policies[u].err.message
       /\ \A o \in Orders(DOMAIN fetched_policies) :
            PrecompilePolicies(o, registry, fetched_policies) = Precompiled

\* a map of one fetch error and one module that does not compile has been
\* precompiled
C18_Witness ==
  /\ precompiled_policies # None
  /\ registry[UrlPodPrivileged] = "fetch_error"
  /\ registry[UrlRawMutation] = "compile_error"
  /\ Precompiled[UrlPodPrivileged] = ErrPolicy(Error(FetchError(UrlPodPrivileged).message, <<>>))
  /\ Precompiled[UrlRawMutation] = ErrPolicy(CompileError(UrlRawMutation))

\* a request to a group whose members all precompiled has been answered
GroupAnswered ==
  /\ Answered
  /\ call.body = "review"
  /\ call.policy \in Groups
  /\ Env[call.policy].init_error = None
  /\ ~AlwaysAccepted(evaluation_environment[1], call.namespace)
TheGroup == cfg.policies[call.policy]
\* what the guest of a member makes of the request
MemberOutcome(n) == call.input[MemberModule(n)]
\* the members whose verdict is a rejection: the guest denies, or it mutates
Deniers == {n \in call.members_evaluated : MemberOutcome(n) # "allow"}
\* the message a rejecting member is listed with
OwnMessage(n) ==
  IF MemberOutcome(n) = "mutate" THEN MutationInGroupMessage
  ELSE IF MemberOutcome(n) = "deadline" THEN <<DeadlineMessage>>
  ELSE RejectionMessage(MemberModule(n))
\* each rejecting member is listed exactly once, with its message, and
\* nothing else is listed
CausesListDeniers ==
  /\ Len(call.resp.causes) = Cardinality(Deniers)
  /\ \A n \in Deniers :
       /\ Cardinality({i \in DOMAIN call.resp.causes : call.resp.causes[i].member = n}) = 1
       /\ \E i \in DOMAIN call.resp.causes :
            call.resp.causes[i] = [member |-> n, message |-> OwnMessage(n)]
GroupAccepts == call.resp.allowed /\ ~call.resp.status /\ call.resp.http = 200
GroupRejects ==
  /\ call.resp.http = 200
  /\ ~call.resp.allowed
  /\ call.resp.status
  /\ call.resp.message = TheGroup.message
  /\ ~call.resp.patch

\* the group's expression, evaluated on what the guests of all called
\* members make of the request
ExpressionHolds ==
  EvalExpression(ExpressionTree(TheGroup.expression),
                 [n \in Called(TheGroup) |-> MemberOutcome(n) = "allow"])
\* every member that mutated is listed with the fixed message
MutationsListed ==
  \A n \in call.members_evaluated :
    MemberOutcome(n) = "mutate"
      => \E i \in DOMAIN call.resp.causes :
           call.resp.causes[i] = [member |-> n, message |-> MutationInGroupMessage]

\* C19 as stated: when all members allow the group allows with no status,
\* and when at least one member contributes to a rejection the group rejects
\* with its message and lists each rejecting member once.
C19_AsStated ==
  GroupAnswered =>
    /\ (\A n \in Called(TheGroup) : MemberOutcome(n) = "allow") => GroupAccepts
    /\ (Deniers # {} /\ ~call.resp.allowed) => (GroupRejects /\ CausesListDeniers)

\* C19: the group allows, with no status, exactly when its expression holds
\* of the members' verdicts, which it does when all members allow and the
\* expression has no negation; otherwise the answer is allowed=false with the
\* group's message and each evaluated member that rejected is listed exactly
\* once, with its own message, in the causes.
C19_GroupVerdict ==
  GroupAnswered =>
    /\ (/\ \A n \in Called(TheGroup) : MemberOutcome(n) = "allow"
        /\ ~HasNegation(ExpressionTree(TheGroup.expression))) => GroupAccepts
    /\ ExpressionHolds => GroupAccepts
    /\ ~ExpressionHolds => (GroupRejects /\ CausesListDeniers)

\* a member called twice by the expression has rejected and is listed once,
\* beside the other member that rejected
C19_Witness ==
  /\ GroupAnswered
  /\ TheGroup.expression = "a() && (a() || b())"
  /\ Deniers = {"a", "b"}
  /\ MemberOutcome("b") = "deny"
  /\ GroupRejects
  /\ Len(call.resp.causes) = 2

\* C20 as stated: whenever an evaluated member mutates, the group answers
\* allowed=false with its message and lists the member with the fixed message.
C20_AsStated ==
  (GroupAnswered /\ \E n \in call.members_evaluated : MemberOutcome(n) = "mutate")
    => (GroupRejects /\ MutationsListed)

\* C20: an evaluated member that mutates counts as rejecting in the group's
\* expression, whatever its allowed_to_mutate; the answer carries no patch;
\* and whenever the group rejects, it does so with its own message and lists
\* the member with exactly the fixed message.
C20_MutationInGroup ==
  (GroupAnswered /\ \E n \in call.members_evaluated : MemberOutcome(n) = "mutate")
    => /\ ~call.resp.patch
       /\ call.resp.allowed = ExpressionHolds
       /\ ~call.resp.allowed => (GroupRejects /\ MutationsListed)

\* a group of the one member that mutates, configured as allowed to mutate,
\* has rejected on the raw route with the fixed message as its only cause
C20_Witness ==
  /\ GroupAnswered
  /\ call.route = "validate_raw"
  /\ TheGroup.expression = "b()"
  /\ "b" \in TheGroup.members_allowed_to_mutate
  /\ MemberOutcome("b") = "mutate"
  /\ call.resp = Rejected(GroupMessage, 0, <<[member |-> "b", message |-> MutationInGroupMessage]>>)

\* C21: for every policy group, every input and every route, the answer has
\* neither a patch nor a patchType, whatever the members return.
C21_GroupsNeverPatch ==
  (Answered /\ call.policy \in Groups)
    => (~call.resp.patch /\ call.resp.patch_type = "")

\* a group has allowed a request one of its evaluated members mutated, and
\* its answer has no patch
C21_Witness ==
  /\ GroupAnswered
  /\ call.route = "validate_raw"
  /\ TheGroup.expression = "b() || a()"
  /\ call.members_evaluated = {"a", "b"}
  /\ MemberOutcome("b") = "mutate"
  /\ call.resp = Accepted(FALSE)

\* the request is answered by the sandbox of a policy in Monitor mode
MonitorEvaluated ==
  /\ Answered
  /\ call.body = "review"
  /\ call.policy \in SinglePolicies
  /\ cfg.policies[call.policy].policy_mode = "monitor"
  /\ call.sandboxes # {}
\* what the guest of the called single policy makes of the request
GuestOutcome == call.input[cfg.policies[call.policy].module]

NamespaceConfigured ==
  /\ Answered
  /\ call.body = "review"
  /\ call.policy \in DOMAIN Env
  /\ cfg.always_accept_admission_reviews_on_namespace # None
InAcceptedNamespace ==
  call.namespace = cfg.always_accept_admission_reviews_on_namespace[1]

\* C29 as stated: every request in the always-accepted namespace is answered
\* allowed=true without invoking the sandbox.
C29_AsStated ==
  (NamespaceConfigured /\ InAcceptedNamespace)
    => (call.resp.allowed /\ call.sandboxes = {})

\* C29: with always_accept_admission_reviews_on_namespace configured, every
\* request in that namespace to a policy or group that initialised is
\* answered allowed=true, without status, patch or warning and without a
\* sandbox being invoked; a request in that namespace to a policy with a
\* boot-time error is answered with that error; a request in another
\* namespace is evaluated: sandboxes run and the answer is that of the
\* policy or group.
C29_AlwaysAcceptNamespace ==
  NamespaceConfigured =>
    LET entry == Env[call.policy]
    IN IF entry.init_error # None
       THEN call.resp = InitializationErrorResponse(entry.init_error[1])
            /\ call.sandboxes = {}
       ELSE IF InAcceptedNamespace
       THEN call.resp = Accepted(FALSE) /\ call.sandboxes = {}
       ELSE /\ call.sandboxes # {}
            /\ call.resp =
                 IF entry.policy.kind = "group"
                 THEN ValidateGroup(entry.policy, call.input, short_circuit)
                 ELSE PolicyModeRewrite(entry.policy.policy_mode,
                                        ValidateSingle(entry.policy, call.input))

\* a request the guest would deny is allowed in the always-accepted
\* namespace without a sandbox
C29_Witness ==
  /\ NamespaceConfigured
  /\ InAcceptedNamespace
  /\ call.policy = "pod-privileged"
  /\ call.input[UrlPodPrivileged] = "deny"
  /\ call.resp = Accepted(FALSE)
  /\ call.sandboxes = {}

SameRequestAnswered(r, q) ==
  /\ r # q
  /\ req[r].st = "answered" /\ req[q].st = "answered"
  /\ req[r].route = req[q].route
  /\ req[r].policy = req[q].policy
  /\ req[r].dur = req[q].dur
  /\ req[r].verdict = req[q].verdict
\* the guest's running time is not within one second above the limit
OutsideDeadlineWindow(r) ==
  \/ eval_limit = None
  \/ req[r].dur <= eval_limit[1]
  \/ req[r].dur > eval_limit[1] + 1

BootOver == phase # "init"

\* C26: whatever fails while the sigstore trust root is materialised (the
\* creation of the cache directory, the TUF refresh, the Fulcio
\* certificates, the Rekor keys), new_from_config logs a warning, holds no
\* trust root and goes on; it does not crash.
C26_SigstoreFailureTolerated ==
  (BootOver /\ world.sigstore # "ok")
    => /\ phase # "panicked"
       /\ sigstore_trust_root = None
       /\ SigstoreWarning \in logged

\* the world fails the boot with an error new_from_config hands on with ? or
\* returns itself
FatalBootError ==
  \/ world.kube = "unreachable" /\ ~cfg.ignore_kubernetes_connection_failure
  \/ world.callback_handler = "error"
  \/ world.downloader = "error"
  \/ world.engine = "error"
  \/ ~cfg.continue_on_errors /\ \E id \in DOMAIN cfg.policies :
       \/ registry[cfg.policies[id].module] # "ok"
       \/ ~cfg.policies[id].settings_valid
  \/ /\ cfg.tls_config # None
     /\ \/ ~BuildTlsServerConfig(cfg.tls_config[1], disk).ok
        \/ world.inotify = "error"
\* no listener socket has been bound
NothingBound == run_pc = "not_called" /\ \A s \in Servers : server[s] = "unbound"

\* C27: every fatal boot error that new_from_config comes to (Kubernetes
\* unreachable and not ignored, the construction of callback handler,
\* downloader or engine failing, a precompile error or an unusable policy
\* without continue_on_errors, the initial TLS load or the registration of
\* the watches failing) makes it return an error, and no listener socket is
\* bound before new_from_config has succeeded and run is called.
C27_FatalBeforeBind ==
  /\ (BootOver /\ FatalBootError /\ phase # "panicked")
       => (phase = "boot_failed" /\ boot_error # None)
  /\ phase # "serving" => NothingBound
  /\ (\E s \in Servers : server[s] # "unbound") => run_pc # "not_called"

\* the boot has failed on the registration of the watches, the last fatal
\* step, with the trust root already held, and nothing is bound
C27_Witness ==
  /\ phase = "boot_failed"
  /\ world = [AllFine EXCEPT !.inotify = "error"]
  /\ cfg.tls_config # None
  /\ sigstore_trust_root # None
  /\ boot_error = Some(Error(<<"Cannot initialize inotify">>, <<>>))
  /\ NothingBound

\* a server has been created, serves or has served
Started(s) == server[s] # "unbound"

\* C24: the CallbackHandler task is spawned before either server is created
\* or serves; the shutdown signal is sent to it only once both the API server
\* and the readiness server have stopped; the task ends only after that, and
\* run returns Ok only after the task has ended.
C24_CallbackEnclosesServing ==
  /\ (\E s \in Servers : Started(s)) => callback_handler # "not_started"
  /\ shutdown_sent => \A s \in Servers : server[s] = "stopped"
  /\ callback_handler = "exited" => shutdown_sent
  /\ run_pc = "returned_ok" => (callback_handler = "exited" /\ shutdown_sent)

\* run has returned Ok: both servers have served and stopped, the signal
\* has been sent and the task has ended
C24_Witness ==
  /\ run_pc = "returned_ok"
  /\ \A s \in Servers : server[s] = "stopped"
  /\ shutdown_sent
  /\ callback_handler = "exited"

\* C25: whatever the TLS configuration of the API listener (none, server
\* certificate only, client CA too) and whatever the TLS manager has done
\* since (reloads that failed included), GET /readiness sent in plain HTTP to
\* the readiness address is answered 200, and nothing else is: no other
\* path, no other method, no request sent over TLS.
C25_ReadinessPlainHttp ==
  probe # NoProbe =>
    (probe.status = 200
       <=> (probe.scheme = "http" /\ probe.method = "GET" /\ probe.path = "/readiness"))

\* the API listener requires client certificates, the last reload has
\* failed, and the probe in plain HTTP is answered 200
C25_Witness ==
  /\ TlsOn
  /\ Tc.client_ca_file # None
  /\ last.rebuilt /\ ~last.ok
  /\ probe = [scheme |-> "http", method |-> "GET", path |-> "/readiness", status |-> 200]

\* ------------------------------------------------------------------------
\* Further properties of the watcher task
\* ------------------------------------------------------------------------
\* C31: every triggered rebuild leaves the three dirty flags clear, whether
\* the build succeeded or failed; so when the iteration after a failed
\* rebuild sees a change of one of two distinct server files only, it
\* attempts no rebuild and the active context stays.
C31_FlagsClearedOnTrigger ==
  [][WatcherStep =>
       /\ last'.rebuilt
            => (~cert_changed' /\ ~key_changed' /\ ~client_cert_changed')
       /\ (/\ last.rebuilt /\ ~last.ok
           /\ Tc.cert_file # Tc.key_file
           /\ Head(queue) \in {Tc.cert_file, Tc.key_file})
            => (~last'.rebuilt /\ active' = active /\ built' = built)]_vars

\* a rebuild has failed, then one server file alone was written and its
\* event handled: no second attempt, the flag of that file is set
C31_Witness ==
  /\ TlsOn
  /\ Tc.cert_file # Tc.key_file
  /\ last.fails = 1
  /\ ~last.rebuilt
  /\ cert_changed /\ ~key_changed /\ ~client_cert_changed
  /\ ~BuildTlsServerConfig(Tc, disk).ok

\* ------------------------------------------------------------------------
\* Further properties of run
\* ------------------------------------------------------------------------
\* the readiness future got past notified() and called serve
ReadinessStarted == server["readiness"] \in {"serving", "failed", "stopped"}

\* the readiness server is never started before the API server future
\* issued the notification
ReadinessAfterNotification == ReadinessStarted => server["api"] # "unbound"

\* C32 as stated: the readiness server starts only after the API server
\* future reached serve and notified, and in every run it eventually starts
C32_AsStated ==
  /\ []ReadinessAfterNotification
  /\ (run_pc = "joined") ~> ReadinessStarted

\* C32: the readiness server starts only after the API server future
\* reached serve and notified, and the notification is not lost: the
\* readiness server eventually starts, unless serve of the API server fails
\* before, in which case try_join! may drop the readiness future unstarted
C32_ReadinessFollowsNotification ==
  /\ []ReadinessAfterNotification
  /\ (run_pc = "joined") ~> (ReadinessStarted \/ server["api"] = "failed")

\* the readiness server serves next to a serving API server
C32_Witness ==
  /\ server["api"] = "serving"
  /\ server["readiness"] = "serving"
  /\ ~notify

\* a server future returned Err
ServerFailed == \E s \in Servers : server[s] = "failed"

\* C33: when the API server or the readiness server ends with an error, run
\* returns the error: the shutdown signal is never sent, the CallbackHandler
\* task is not awaited and keeps running, and run goes nowhere but to the
\* error return
C33_ErrorReturnsWithoutShutdown ==
  /\ [](ServerFailed => /\ run_pc \in {"joined", "returned_err"}
                        /\ ~shutdown_sent
                        /\ callback_handler = "running")
  /\ ServerFailed ~> (run_pc = "returned_err")

\* run returned the error of the readiness server while the API server was
\* serving
C33_Witness ==
  /\ run_pc = "returned_err"
  /\ server["readiness"] = "failed"
  /\ server["api"] = "dropped"
  /\ ~shutdown_sent
  /\ callback_handler = "running"

\* ------------------------------------------------------------------------
\* Further properties of the boot
\* ------------------------------------------------------------------------
\* the error new_from_config returns when the cluster cannot be reached
KubeConnectionError ==
  Error(<<"Cannot connect to Kubernetes, context aware policies would not work properly">>,
        <<>>)

\* new_from_config got to kube::Client::try_default and beyond: it returned
\* (the trust root step before it returns no error, it can only panic)
ReachedKubeClient == phase \in {"serving", "boot_failed"}

\* C34: once new_from_config has returned, an unreachable cluster has made it
\* return the connection error when ignore_kubernetes_connection_failure is
\* false, and otherwise the boot went on with a CallbackHandler that has no
\* cluster client; a client that could be created was handed to the
\* CallbackHandler
C34_KubeClientFailure ==
  ReachedKubeClient =>
    /\ (world.kube = "unreachable" /\ ~cfg.ignore_kubernetes_connection_failure)
          => (phase = "boot_failed" /\ boot_error = Some(KubeConnectionError))
    /\ (world.kube = "unreachable" /\ cfg.ignore_kubernetes_connection_failure)
          => (kube_client = None /\ boot_error # Some(KubeConnectionError))
    /\ world.kube = "ok" => kube_client = Some("client")

\* the server runs although the cluster could not be reached
C34_Witness ==
  /\ phase = "serving"
  /\ world.kube = "unreachable"
  /\ cfg.ignore_kubernetes_connection_failure
  /\ kube_client = None
  /\ server["api"] = "serving"

\* C35: the engine has epoch interruption enabled, the evaluation
\* environment has the per-evaluation limit and the ticker task is spawned
\* exactly when policy_evaluation_limit_seconds is configured: the three go
\* together in every state, so there is never interruption without a ticker
\* or a ticker without interruption
C35_InterruptionLimitTickerTogether ==
  /\ epoch_interruption <=> ticker
  /\ (eval_limit # None) <=> ticker
  /\ phase = "serving" => (/\ ticker <=> (cfg.policy_evaluation_limit_seconds # None)
                           /\ eval_limit = cfg.policy_evaluation_limit_seconds)
  /\ phase # "serving" => ~ticker

\* a server with a limit, whose ticker has advanced the epoch
C35_Witness ==
  /\ phase = "serving"
  /\ cfg.policy_evaluation_limit_seconds # None
  /\ epoch_interruption /\ ticker /\ eval_limit # None
  /\ epoch > 0

\* ------------------------------------------------------------------------
\* Further properties of the admission surface
\* ------------------------------------------------------------------------
\* C36: with a pool of at least one permit and guests that complete or are
\* interrupted at the deadline, every request that waits for a permit is
\* eventually admitted to the evaluation, and every admitted request is
\* eventually answered, under fair scheduling
C36_WaitingEventuallyAnswered ==
  \A r \in ReqIds :
    /\ (req[r].st = "waiting") ~> Evaluating(r)
    /\ Evaluating(r) ~> (req[r].st = "answered")

\* with a single permit, a request has been admitted at the moment a guest
\* that ran for a while was done or interrupted, and another is answered
C36_Witness ==
  /\ cfg.pool_size = 1
  /\ \E r, q \in ReqIds :
       /\ req[r].st = "answered"
       /\ req[r].dur > 0
       /\ req[r].exit \in {"allow", "deadline"}
       /\ Evaluating(q)
       /\ req[q].start_now > 0

\* C37: an iteration of the watcher whose event could not be read changes
\* none of the three dirty flags, rebuilds nothing and leaves the active
\* TLS context as it is; the watcher keeps running and takes the following
\* events
C37_ReadErrorSkipped ==
  [][(WatcherStep /\ Head(queue) = ReadError)
       => /\ UNCHANGED <<cert_changed, key_changed, client_cert_changed>>
          /\ ~last'.rebuilt
          /\ last'.fails = last.fails
          /\ active' = active
          /\ built' = built
          /\ last'.logs = {"warn"}
          /\ watcher' = "running"
          /\ queue' # <<>> => ENABLED HandleEvent]_vars

\* an unreadable event has been skipped between the write of the
\* certificate and the event of the key: the certificate is still marked
\* as changed and the event of the key is the next in the stream
C37_Witness ==
  /\ last.logs = {"warn"}
  /\ cert_changed /\ ~key_changed
  /\ queue # <<>>
  /\ Head(queue) = Tc.key_file

====
